---- MODULE Spec2Model ----
(***************************************************************************)
(* A model of the persistence layer (backend/database.py, NoteDatabase)    *)
(* and of the session layer (backend/main.py, NoteDatabaseSystem) of the   *)
(* note-taking application.  SQLite tables are functions from row id to    *)
(* row; AUTOINCREMENT is the per-table counter of sqlite_sequence; foreign *)
(* keys are enforced (PRAGMA foreign_keys = ON) at the end of a statement. *)
(***************************************************************************)
EXTENDS Integers, Sequences, FiniteSets, TLC

VARIABLES
    users,            \* table users: username -> [id, password_hash]
    folders,          \* table folders: id -> [user_id, name, parent_id]
    notes,            \* table notes: id -> [user_id, title, content, folder_id, modified_at]
    todos,            \* table todos: id -> [user_id, title, priority, completed, note_id]
    reminders,        \* table reminders: id -> [user_id, text, time]
    tags,             \* table tags: name -> id
    note_tags,        \* table note_tags: a set of <<note_id, tag_id>>
    todo_tags,        \* table todo_tags: a set of <<todo_id, tag_id>>
    seq,              \* sqlite_sequence: the last AUTOINCREMENT id of each table
    active_sessions,  \* NoteDatabaseSystem.active_sessions: session_id -> username
    issued,           \* the session ids uuid4 has produced so far
    user_todos,       \* main.py's user_todos: username -> list of todos, in memory
    now,              \* the clock CURRENT_TIMESTAMP reads, in seconds
    handlers,         \* the calls in progress on two threads or processes
    last,             \* the last NoteDatabase call: [op, user_id, ret]
    reply             \* the last NoteDatabaseSystem reply: [op, success, message, data]

vars == <<users, folders, notes, todos, reminders, tags, note_tags, todo_tags, seq,
          active_sessions, issued, user_todos, now, handlers, last, reply>>

\* The session registry, which no NoteDatabase method touches.
sessions == <<active_sessions, issued>>
\* The tag tables.
tagging == <<tags, note_tags, todo_tags>>

(* ---------------------------------------------------------------- bounds *)

\* Folders ever created (AUTOINCREMENT never reuses an id) in SpecFolders.
MaxFolderId == 3
\* Folders ever created in SpecTree.
MaxTreeFolders == 2
\* Notes ever created.
MaxNoteId == 3
\* Rows per table in SpecStore: folder ids, and ids of notes, todos, reminders.
MaxStoreFolders == 2
MaxStoreRows == 1
\* AUTOINCREMENT ids the tags table hands out in SpecStore.
MaxTagId == 1
\* Logins: the tokens uuid4 hands out in SpecLogin and SpecSessions.
MaxSessions == 2
\* SpecTags: ids of notes, and AUTOINCREMENT ids the tags table hands out.
MaxTaggedNotes == 2
MaxTagSeq == 4
\* Todos ever created in the table, and the length of an in-memory todo list,
\* in SpecPriority and SpecToggle.
MaxTodos == 2
\* Notes ever created in SpecLinks.
MaxLinkNotes == 2
\* SpecStats: notes ever created, and seconds that pass on the clock.
MaxStatNotes == 2
MaxClock == 1
\* SpecRaceFolders: folders and notes ever created.
MaxRaceFolders == 3
MaxRaceNotes == 1
\* SpecRaceToggle: todos ever created.
MaxRaceTodos == 2

(* ---------------------------------------------------------------- values *)

\* SQL NULL / Python None in an id column or argument; row ids start at 1.
NULL == 0

Usernames == {"alice", "bob"}
Passwords == {"pw1"}
UserIds == 1..Cardinality(Usernames)
FolderNames == {"A", "B"}
Titles == {"t1"}
Contents == {"c1"}
NoteTitles == {"t1", "t2"}
NoteContents == {"c1", "c2"}
FolderIds == 1..MaxFolderId
StoreFolderIds == 1..MaxStoreFolders
StoreRowIds == 1..MaxStoreRows
TagLists == {<<"x">>}
Priorities == {"normal"}
Tokens == 1..MaxSessions
\* 0 is a session id that uuid4 never returns.
SessionIds == 0..MaxSessions
RawUsernames == {"alice", " bob ", " "}
RawPasswords == {"pw1", " pw1 ", "pw", " ", ""}
RawTitles == {"t1", " "}
RawTagLists == {<<"x">>, <<" ">>}
\* Two usernames that differ in letter case only, and two passwords.
AccountNames == {"alice", "Alice"}
AccountPasswords == {"pw1", "pw2"}
\* Tag lists: a name twice in one list, and a name of the other list with the
\* same name in another case.
TagNameLists == {<<"b", "b">>, <<"b", "B">>}
TaggedNoteIds == 1..MaxTaggedNotes
\* The priorities a todo is created with: one of the enumeration, one outside.
GivenPriorities == {"high", "urgent"}
\* The values the todos.priority column is documented to hold.
PriorityEnum == {"low", "normal", "high"}
\* The todo ids the callers pass: every id given out, and one never given out.
TodoIds == 1..(MaxTodos + 1)
\* Note titles that differ in letter case only, and the titles a todo is
\* created with: those, none, and one with blanks around it.
LinkTitles == {"t1", "T1"}
GivenNoteTitles == LinkTitles \cup {""}
RawNoteTitles == {"t1", " t1 ", ""}
\* The tag lists of SpecStats: one for notes, one for todos.
NoteTagLists == {<<"x">>}
TodoTagLists == {<<"x">>, <<"y">>}
RaceFolderIds == 1..MaxRaceFolders
RaceContents == {"c1", "c2"}
TreeIds == 1..MaxTreeFolders

\* What a NoteDatabase call returned or raised.
RetTrue == [kind |-> "True", id |-> NULL, tags |-> <<>>]
RetFalse == [kind |-> "False", id |-> NULL, tags |-> <<>>]
RetNone == [kind |-> "None", id |-> NULL, tags |-> <<>>]
RetId(i) == [kind |-> "id", id |-> i, tags |-> <<>>]
RetTags(names) == [kind |-> "tags", id |-> NULL, tags |-> names]
Raise(e) == [kind |-> e, id |-> NULL, tags |-> <<>>]
RetBool(b) == IF b THEN RetTrue ELSE RetFalse

Call(op, user_id, ret) == [op |-> op, user_id |-> user_id, ret |-> ret]

\* Two callers at once, and what is known of a call in progress: the method,
\* where it stands, its arguments, what it has read so far, and at the end what
\* it returned or raised.
HandlerIds == {1, 2}
Running(op, pc, user_id, id, name, text, ids, flag) ==
    [op |-> op, pc |-> pc, user_id |-> user_id, id |-> id, name |-> name, text |-> text,
     ids |-> ids, flag |-> flag, ret |-> RetNone]
Idle == Running("", "idle", NULL, NULL, "", "", {}, FALSE)
Returned(call, ret) == [call EXCEPT !.pc = "done", !.ret = ret]
NoReply == [op |-> "", success |-> FALSE, message |-> "", data |-> <<>>]

Range(s) == {s[i] : i \in DOMAIN s}

\* The rows of a table left after deleting the rows `gone`.
Without(table, gone) == [i \in DOMAIN table \ gone |-> table[i]]

\* A set of row ids in rowid order, as a cursor returns them.
RECURSIVE InRowidOrder(_)
InRowidOrder(S) ==
    IF S = {} THEN <<>>
    ELSE LET m == CHOOSE x \in S : \A y \in S : x <= y
         IN <<m>> \o InRowidOrder(S \ {m})

(* ------------------------------------------------------------------ auth *)

\* bcrypt: a one-way digest that only checkpw relates to the password.
_hash_password(password) == [bcrypt_of |-> password]
_verify_password(password, hash) == hash.bcrypt_of = password

RegisteredIds == {users[n].id : n \in DOMAIN users}

\* create_user as INSERT OR REPLACE: a second registration overwrites the row.
create_user_or_replace(username, password) ==
    /\ users' = (username :>
                    [id |-> seq.users + 1, password_hash |-> _hash_password(password)])
                @@ users
    /\ seq' = [seq EXCEPT !.users = @ + 1]
    /\ last' = Call("create_user", NULL, RetTrue)
    /\ UNCHANGED <<folders, notes, todos, reminders, user_todos, now, handlers, tagging, sessions>>

create_user(username, password) ==
    /\ IF username \in DOMAIN users
       THEN \* UNIQUE(username): sqlite3.IntegrityError, caught
            /\ last' = Call("create_user", NULL, RetFalse)
            /\ UNCHANGED <<users, seq>>
       ELSE /\ users' = users @@ (username :>
                   [id |-> seq.users + 1, password_hash |-> _hash_password(password)])
            /\ seq' = [seq EXCEPT !.users = @ + 1]
            /\ last' = Call("create_user", NULL, RetTrue)
    /\ UNCHANGED <<folders, notes, todos, reminders, user_todos, now, handlers, tagging, sessions>>

verify_user(username, password) ==
    /\ username \in DOMAIN users
    /\ _verify_password(password, users[username].password_hash)

get_user_id(username) ==
    IF username \in DOMAIN users THEN users[username].id ELSE NULL

(* ----------------------------------------------------------------- notes *)

NoteRows(user_id, title) ==
    {n \in DOMAIN notes : notes[n].user_id = user_id /\ notes[n].title = title}

\* create_note on a table without UNIQUE(user_id, title).
create_note_no_unique(user_id, title, content, folder_id) ==
    /\ IF user_id \in RegisteredIds
       THEN /\ notes' = notes @@ (seq.notes + 1 :>
                   [user_id |-> user_id, title |-> title, content |-> content,
                    folder_id |-> folder_id, modified_at |-> now])
            /\ seq' = [seq EXCEPT !.notes = @ + 1]
            /\ last' = Call("create_note", user_id, RetId(seq.notes + 1))
       ELSE /\ last' = Call("create_note", user_id, RetNone)
            /\ UNCHANGED <<notes, seq>>
    /\ UNCHANGED <<users, folders, todos, reminders, user_todos, now, handlers, tagging, sessions>>

create_note(user_id, title, content, folder_id) ==
    /\ IF user_id \in RegisteredIds /\ NoteRows(user_id, title) = {}
       THEN /\ notes' = notes @@ (seq.notes + 1 :>
                   [user_id |-> user_id, title |-> title, content |-> content,
                    folder_id |-> folder_id, modified_at |-> now])
            /\ seq' = [seq EXCEPT !.notes = @ + 1]
            /\ last' = Call("create_note", user_id, RetId(seq.notes + 1))
       ELSE \* FOREIGN KEY(user_id) or UNIQUE(user_id, title): IntegrityError, caught
            /\ last' = Call("create_note", user_id, RetNone)
            /\ UNCHANGED <<notes, seq>>
    /\ UNCHANGED <<users, folders, todos, reminders, user_todos, now, handlers, tagging, sessions>>

set_note_folder(user_id, title, folder_id) ==
    /\ notes' = [n \in DOMAIN notes |->
                    IF n \in NoteRows(user_id, title)
                    THEN [notes[n] EXCEPT !.folder_id = folder_id]
                    ELSE notes[n]]
    /\ last' = Call("set_note_folder", user_id, RetBool(NoteRows(user_id, title) # {}))
    /\ UNCHANGED <<users, folders, todos, reminders, user_todos, now, handlers, tagging, seq, sessions>>

update_note_content(user_id, title, new_content) ==
    /\ notes' = [n \in DOMAIN notes |->
                    IF n \in NoteRows(user_id, title)
                    THEN [notes[n] EXCEPT !.content = new_content, !.modified_at = now]
                    ELSE notes[n]]
    /\ last' = Call("update_note_content", user_id, RetBool(NoteRows(user_id, title) # {}))
    /\ UNCHANGED <<users, folders, todos, reminders, user_todos, now, handlers, tagging, seq, sessions>>

delete_note(user_id, title) ==
    LET rows == NoteRows(user_id, title)
    IN  /\ IF \E t \in DOMAIN todos : todos[t].note_id \in rows
           THEN \* todos.note_id REFERENCES notes(id), no ON DELETE action:
                \* FOREIGN KEY constraint failed, raised to the caller
                /\ last' = Call("delete_note", user_id, Raise("IntegrityError"))
                /\ UNCHANGED <<notes, note_tags>>
           ELSE /\ notes' = Without(notes, rows)
                \* note_tags.note_id ... ON DELETE CASCADE
                /\ note_tags' = {nt \in note_tags : nt[1] \notin rows}
                /\ last' = Call("delete_note", user_id, RetBool(rows # {}))
        /\ UNCHANGED <<users, folders, todos, reminders, user_todos, now, handlers, tags, todo_tags, seq, sessions>>

(* ------------------------------------------------------------------ tags *)

\* INSERT OR IGNORE INTO tags (name): the tags table after the statement.  The
\* statement takes the next AUTOINCREMENT id, n + 1, whether or not the row is
\* then ignored.
TagsWith(tbl, n, name) ==
    IF name \in DOMAIN tbl THEN tbl ELSE tbl @@ (name :> n + 1)

\* The loop writing the association with INSERT OR REPLACE keyed by the entity
\* alone: the entity keeps the tag attached last and no other.
RECURSIVE AttachAll_replacing(_, _, _)
AttachAll_replacing(st, id, names) ==
    IF names = <<>> THEN st
    ELSE LET name == Head(names)
             tbl == TagsWith(st.tags, st.n, name)
         IN  AttachAll_replacing([tags |-> tbl,
                                  n |-> st.n + 1,
                                  links |-> {l \in st.links : l[1] # id}
                                                \cup {<<id, tbl[name]>>}],
                                 id, Tail(names))

\* The loop `for name in tags` of add_note_tags and add_todo_tags over the
\* list `names`: [tags, n, links] are the tags table, its AUTOINCREMENT
\* counter and the association table of the entity `id`.
RECURSIVE AttachAll(_, _, _)
AttachAll(st, id, names) ==
    IF names = <<>> THEN st
    ELSE LET name == Head(names)
             tbl == TagsWith(st.tags, st.n, name)
         IN  AttachAll([tags |-> tbl,
                        n |-> st.n + 1,
                        links |-> st.links \cup {<<id, tbl[name]>>}],
                       id, Tail(names))

\* SELECT t.name FROM tags t JOIN <links> ... WHERE <entity> = id
TagNames(tbl, links, id) ==
    LET ids == InRowidOrder({l[2] : l \in {x \in links : x[1] = id}})
    IN  [i \in DOMAIN ids |-> CHOOSE name \in DOMAIN tbl : tbl[name] = ids[i]]

add_note_tags(user_id, title, names) ==
    LET rows == NoteRows(user_id, title)
    IN  /\ IF rows = {}
           THEN /\ last' = Call("add_note_tags", user_id, RetNone)
                /\ UNCHANGED <<tags, note_tags, seq>>
           ELSE LET note_id == CHOOSE n \in rows : TRUE
                    st == AttachAll([tags |-> tags, n |-> seq.tags, links |-> note_tags],
                                    note_id, names)
                IN  /\ tags' = st.tags
                    /\ note_tags' = st.links
                    /\ seq' = [seq EXCEPT !.tags = st.n]
                    /\ last' = Call("add_note_tags", user_id,
                                    RetTags(TagNames(st.tags, st.links, note_id)))
        /\ UNCHANGED <<users, folders, notes, todos, reminders, user_todos, now, handlers, todo_tags, sessions>>

(* ----------------------------------------------------------------- todos *)

TodoRows(user_id, todo_id) ==
    {t \in DOMAIN todos : t = todo_id /\ todos[t].user_id = user_id}

\* note_title = "" stands for None as well: `if note_title:` treats them alike.
\* create_todo whose SELECT looks the note up by title alone.
create_todo_any_owner(user_id, title, priority, note_title) ==
    LET rows == {n \in DOMAIN notes : notes[n].title = note_title}
        note_id == IF rows = {} THEN NULL ELSE CHOOSE n \in rows : TRUE
    IN  /\ todos' = todos @@ (seq.todos + 1 :>
               [user_id |-> user_id, title |-> title, priority |-> priority,
                completed |-> FALSE, note_id |-> note_id])
        /\ seq' = [seq EXCEPT !.todos = @ + 1]
        /\ last' = Call("create_todo", user_id, RetId(seq.todos + 1))
        /\ UNCHANGED <<users, folders, notes, reminders, user_todos, now, handlers, tagging, sessions>>

create_todo(user_id, title, priority, note_title) ==
    LET rows == IF note_title = "" THEN {} ELSE NoteRows(user_id, note_title)
        note_id == IF rows = {} THEN NULL ELSE CHOOSE n \in rows : TRUE
    IN  /\ IF user_id \in RegisteredIds
           THEN /\ todos' = todos @@ (seq.todos + 1 :>
                       [user_id |-> user_id, title |-> title, priority |-> priority,
                        completed |-> FALSE, note_id |-> note_id])
                /\ seq' = [seq EXCEPT !.todos = @ + 1]
                /\ last' = Call("create_todo", user_id, RetId(seq.todos + 1))
           ELSE \* FOREIGN KEY (user_id): raised to the caller
                /\ last' = Call("create_todo", user_id, Raise("IntegrityError"))
                /\ UNCHANGED <<todos, seq>>
        /\ UNCHANGED <<users, folders, notes, reminders, user_todos, now, handlers, tagging, sessions>>

\* The todos table after UPDATE todos SET completed = <the other value> WHERE
\* id = todo_id AND user_id = user_id, which toggle_todo runs when its SELECT
\* finds the row.
Toggled(rows, user_id, todo_id) ==
    [t \in DOMAIN rows |->
        IF t = todo_id /\ rows[t].user_id = user_id
        THEN [rows[t] EXCEPT !.completed = ~@]
        ELSE rows[t]]

toggle_todo(user_id, todo_id) ==
    /\ todos' = Toggled(todos, user_id, todo_id)
    /\ last' = Call("toggle_todo", user_id, RetBool(TodoRows(user_id, todo_id) # {}))
    /\ UNCHANGED <<users, folders, notes, reminders, user_todos, now, handlers, tagging, seq, sessions>>

\* delete_todo that also deletes the tag rows no association uses any more.
delete_todo_dropping_tags(user_id, todo_id) ==
    LET rows == TodoRows(user_id, todo_id)
        links == {tt \in todo_tags : tt[1] \notin rows}
        used == {l[2] : l \in links \cup note_tags}
    IN  /\ todos' = Without(todos, rows)
        /\ todo_tags' = links
        /\ tags' = [x \in {y \in DOMAIN tags : tags[y] \in used} |-> tags[x]]
        /\ last' = Call("delete_todo", user_id, RetBool(rows # {}))
        /\ UNCHANGED <<users, folders, notes, reminders, user_todos, now, handlers, note_tags, seq, sessions>>

delete_todo(user_id, todo_id) ==
    LET rows == TodoRows(user_id, todo_id)
    IN  /\ todos' = Without(todos, rows)
        \* todo_tags.todo_id ... ON DELETE CASCADE
        /\ todo_tags' = {tt \in todo_tags : tt[1] \notin rows}
        /\ last' = Call("delete_todo", user_id, RetBool(rows # {}))
        /\ UNCHANGED <<users, folders, notes, reminders, user_todos, now, handlers, tags, note_tags, seq, sessions>>

add_todo_tags(user_id, todo_id, names) ==
    /\ IF TodoRows(user_id, todo_id) = {}
       THEN /\ last' = Call("add_todo_tags", user_id, RetNone)
            /\ UNCHANGED <<tags, todo_tags, seq>>
       ELSE LET st == AttachAll([tags |-> tags, n |-> seq.tags, links |-> todo_tags],
                                todo_id, names)
            IN  /\ tags' = st.tags
                /\ todo_tags' = st.links
                /\ seq' = [seq EXCEPT !.tags = st.n]
                /\ last' = Call("add_todo_tags", user_id,
                                RetTags(TagNames(st.tags, st.links, todo_id)))
    /\ UNCHANGED <<users, folders, notes, todos, reminders, user_todos, now, handlers, note_tags, sessions>>

(* ------------------------------------------------------------- reminders *)

ReminderRows(user_id, reminder_id) ==
    {r \in DOMAIN reminders : r = reminder_id /\ reminders[r].user_id = user_id}

create_reminder(user_id, text, time) ==
    /\ IF user_id \in RegisteredIds
       THEN /\ reminders' = reminders @@ (seq.reminders + 1 :>
                   [user_id |-> user_id, text |-> text, time |-> time])
            /\ seq' = [seq EXCEPT !.reminders = @ + 1]
            /\ last' = Call("create_reminder", user_id, RetId(seq.reminders + 1))
       ELSE \* FOREIGN KEY (user_id): raised to the caller
            /\ last' = Call("create_reminder", user_id, Raise("IntegrityError"))
            /\ UNCHANGED <<reminders, seq>>
    /\ UNCHANGED <<users, folders, notes, todos, user_todos, now, handlers, tagging, sessions>>

delete_reminder(user_id, reminder_id) ==
    /\ reminders' = Without(reminders, ReminderRows(user_id, reminder_id))
    /\ last' = Call("delete_reminder", user_id, RetBool(ReminderRows(user_id, reminder_id) # {}))
    /\ UNCHANGED <<users, folders, notes, todos, user_todos, now, handlers, tagging, seq, sessions>>

(* --------------------------------------------------------------- folders *)

FolderRows(user_id, folder_id) ==
    {f \in DOMAIN folders : f = folder_id /\ folders[f].user_id = user_id}

create_folder(user_id, name, parent_id) ==
    LET folder_id == seq.folders + 1
    IN  /\ IF /\ user_id \in RegisteredIds
              \* the parent row is looked up when the statement ends, the new
              \* row included
              /\ parent_id = NULL \/ parent_id \in DOMAIN folders \cup {folder_id}
           THEN /\ folders' = folders @@ (folder_id :>
                       [user_id |-> user_id, name |-> name, parent_id |-> parent_id])
                /\ seq' = [seq EXCEPT !.folders = folder_id]
                /\ last' = Call("create_folder", user_id, RetId(folder_id))
           ELSE \* FOREIGN KEY constraint failed: raised to the caller
                /\ last' = Call("create_folder", user_id, Raise("IntegrityError"))
                /\ UNCHANGED <<folders, seq>>
        /\ UNCHANGED <<users, notes, todos, reminders, user_todos, now, handlers, tagging, sessions>>

rename_folder(user_id, folder_id, new_name) ==
    /\ folders' = [f \in DOMAIN folders |->
                      IF f \in FolderRows(user_id, folder_id)
                      THEN [folders[f] EXCEPT !.name = new_name]
                      ELSE folders[f]]
    /\ last' = Call("rename_folder", user_id, RetBool(FolderRows(user_id, folder_id) # {}))
    /\ UNCHANGED <<users, notes, todos, reminders, user_todos, now, handlers, tagging, seq, sessions>>

\* move_folder without its self-parent test.
move_folder_no_self_test(user_id, folder_id, new_parent_id) ==
    /\ IF FolderRows(user_id, folder_id) = {}
       THEN /\ last' = Call("move_folder", user_id, RetFalse)
            /\ UNCHANGED folders
       ELSE IF new_parent_id # NULL /\ new_parent_id \notin DOMAIN folders
       THEN /\ last' = Call("move_folder", user_id, Raise("IntegrityError"))
            /\ UNCHANGED folders
       ELSE /\ folders' = [folders EXCEPT ![folder_id].parent_id = new_parent_id]
            /\ last' = Call("move_folder", user_id, RetTrue)
    /\ UNCHANGED <<users, notes, todos, reminders, user_todos, now, handlers, tagging, seq, sessions>>

move_folder(user_id, folder_id, new_parent_id) ==
    /\ IF new_parent_id = folder_id
       THEN \* prevent setting parent to itself
            /\ last' = Call("move_folder", user_id, RetFalse)
            /\ UNCHANGED folders
       ELSE IF FolderRows(user_id, folder_id) = {}
       THEN /\ last' = Call("move_folder", user_id, RetFalse)
            /\ UNCHANGED folders
       ELSE IF new_parent_id # NULL /\ new_parent_id \notin DOMAIN folders
       THEN \* FOREIGN KEY constraint failed: raised to the caller
            /\ last' = Call("move_folder", user_id, Raise("IntegrityError"))
            /\ UNCHANGED folders
       ELSE /\ folders' = [folders EXCEPT ![folder_id].parent_id = new_parent_id]
            /\ last' = Call("move_folder", user_id, RetTrue)
    /\ UNCHANGED <<users, notes, todos, reminders, user_todos, now, handlers, tagging, seq, sessions>>

\* Python's recursion limit: the model's folder tables hold at most MaxFolderId
\* rows, so a deeper recursion is one that follows a cycle and never ends.
RecursionLimit == MaxFolderId + 1

Collected(ids) == [raised |-> FALSE, ids |-> ids]
RecursionError == [raised |-> TRUE, ids |-> <<>>]

RECURSIVE Flatten(_, _)
Flatten(children, subs) ==
    IF children = <<>> THEN <<>>
    ELSE <<Head(children)>> \o Head(subs).ids \o Flatten(Tail(children), Tail(subs))

RECURSIVE _collect_descendants(_, _, _)
_collect_descendants(user_id, folder_id, depth) ==
    IF depth > RecursionLimit THEN RecursionError
    ELSE LET children == InRowidOrder({c \in DOMAIN folders :
                             /\ folders[c].user_id = user_id
                             /\ folders[c].parent_id = folder_id})
             subs == [i \in DOMAIN children |->
                         _collect_descendants(user_id, children[i], depth + 1)]
         IN  IF \E i \in DOMAIN children : subs[i].raised
             THEN RecursionError
             ELSE Collected(Flatten(children, subs))

\* ON DELETE CASCADE over parent_id: the rows deleted with the rows `gone`.
RECURSIVE Cascade(_)
Cascade(gone) ==
    LET more == {c \in DOMAIN folders : folders[c].parent_id \in gone} \ gone
    IN  IF more = {} THEN gone ELSE Cascade(gone \cup more)

delete_folder(user_id, folder_id) ==
    LET descendants == _collect_descendants(user_id, folder_id, 1)
        ids == {folder_id} \cup Range(descendants.ids)
    IN  /\ IF descendants.raised
           THEN /\ last' = Call("delete_folder", user_id, Raise("RecursionError"))
                /\ UNCHANGED <<notes, folders>>
           ELSE /\ notes' = [n \in DOMAIN notes |->
                                IF notes[n].user_id = user_id /\ notes[n].folder_id \in ids
                                THEN [notes[n] EXCEPT !.folder_id = NULL]
                                ELSE notes[n]]
                /\ folders' = Without(folders, Cascade(FolderRows(user_id, folder_id)))
                /\ last' = Call("delete_folder", user_id, RetBool(FolderRows(user_id, folder_id) # {}))
        /\ UNCHANGED <<users, todos, reminders, user_todos, now, handlers, tagging, seq, sessions>>

\* The order of two folder names under ORDER BY name (BINARY collation).
NameRank(name) == CASE name = "A" -> 1 [] name = "B" -> 2 [] OTHER -> 3

\* SELECT id, name, parent_id FROM folders WHERE user_id = ? ORDER BY name: the
\* orders the rows can come back in; rows of one name come in any order.
FolderRowOrders(user_id) ==
    LET own == {f \in DOMAIN folders : folders[f].user_id = user_id}
    IN  {rows \in [1..Cardinality(own) -> own] :
            /\ \A i, j \in DOMAIN rows : i # j => rows[i] # rows[j]
            /\ \A i, j \in DOMAIN rows :
                  i < j => NameRank(folders[rows[i]].name) <= NameRank(folders[rows[j]].name)}

\* list_folders_tree when the SELECT returns `rows`: the ids of the root nodes
\* and, for each node, the ids in its children list, in the order of `rows`.
list_folders_tree(user_id, rows) ==
    LET nodes == Range(rows)
        IsChild(f) == folders[f].parent_id # NULL /\ folders[f].parent_id \in nodes
    IN  [roots |-> SelectSeq(rows, LAMBDA f : ~IsChild(f)),
         children |-> [p \in nodes |->
                          SelectSeq(rows, LAMBDA f : IsChild(f) /\ folders[f].parent_id = p)]]

\* A second passes on the clock CURRENT_TIMESTAMP reads.
Tick ==
    /\ now' = now + 1
    /\ UNCHANGED <<users, folders, notes, todos, reminders, user_todos, tagging, seq,
                   sessions, handlers, last, reply>>

(* ------------------------------------------------ calls that run at once *)

\* A NoteDatabase method runs on a connection of its own.  A SELECT sees what
\* is committed when it runs; from its first UPDATE, INSERT or DELETE to its
\* commit the connection holds the write lock of the file, other writers wait
\* and readers see nothing of it, so these statements are one step.

\* delete_folder up to its UPDATE: _collect_descendants has run its SELECTs.
delete_folder_collect(h, user_id, folder_id) ==
    LET descendants == _collect_descendants(user_id, folder_id, 1)
        call == Running("delete_folder", "collected", user_id, folder_id, "", "",
                        {folder_id} \cup Range(descendants.ids), FALSE)
    IN  /\ handlers[h].pc = "idle"
        /\ handlers' = [handlers EXCEPT ![h] =
                           IF descendants.raised
                           THEN Returned(call, Raise("RecursionError"))
                           ELSE call]
        /\ UNCHANGED <<users, folders, notes, todos, reminders, user_todos, now, tagging,
                       seq, sessions, last, reply>>

\* delete_folder from its UPDATE to its commit, with the ids collected before.
delete_folder_write(h) ==
    LET call == handlers[h]
        rows == FolderRows(call.user_id, call.id)
    IN  /\ call.op = "delete_folder" /\ call.pc = "collected"
        /\ notes' = [n \in DOMAIN notes |->
                        IF notes[n].user_id = call.user_id /\ notes[n].folder_id \in call.ids
                        THEN [notes[n] EXCEPT !.folder_id = NULL]
                        ELSE notes[n]]
        /\ folders' = Without(folders, Cascade(rows))
        /\ handlers' = [handlers EXCEPT ![h] = Returned(call, RetBool(rows # {}))]
        /\ last' = Call("delete_folder", call.user_id, RetBool(rows # {}))
        /\ UNCHANGED <<users, todos, reminders, user_todos, now, tagging, seq, sessions,
                       reply>>

\* toggle_todo up to its UPDATE: the SELECT of completed has run.
toggle_todo_read(h, user_id, todo_id) ==
    LET rows == TodoRows(user_id, todo_id)
        call == Running("toggle_todo", "read", user_id, todo_id, "", "", {},
                        rows # {} /\ todos[todo_id].completed)
    IN  /\ handlers[h].pc = "idle"
        /\ handlers' = [handlers EXCEPT ![h] =
                           IF rows = {} THEN Returned(call, RetFalse) ELSE call]
        /\ UNCHANGED <<users, folders, notes, todos, reminders, user_todos, now, tagging,
                       seq, sessions, last, reply>>

\* toggle_todo from its UPDATE on: new_val is the other value of the one read.
toggle_todo_write(h) ==
    LET call == handlers[h]
        rows == TodoRows(call.user_id, call.id)
    IN  /\ call.op = "toggle_todo" /\ call.pc = "read"
        /\ todos' = [t \in DOMAIN todos |->
                        IF t \in rows THEN [todos[t] EXCEPT !.completed = ~call.flag]
                        ELSE todos[t]]
        /\ handlers' = [handlers EXCEPT ![h] = Returned(call, RetBool(rows # {}))]
        /\ last' = Call("toggle_todo", call.user_id, RetBool(rows # {}))
        /\ UNCHANGED <<users, folders, notes, reminders, user_todos, now, tagging, seq,
                       sessions, reply>>

\* create_user and create_note run one INSERT between _connect and commit:
\* a call is in progress until its INSERT, and the INSERT is one step.
create_user_call(h, username, password) ==
    /\ handlers[h].pc = "idle"
    /\ handlers' = [handlers EXCEPT ![h] =
           Running("create_user", "called", NULL, NULL, username, password, {}, FALSE)]
    /\ UNCHANGED <<users, folders, notes, todos, reminders, user_todos, now, tagging,
                   seq, sessions, last, reply>>

create_user_insert(h) ==
    LET call == handlers[h]
    IN  /\ call.op = "create_user" /\ call.pc = "called"
        /\ IF call.name \in DOMAIN users
           THEN \* UNIQUE(username): sqlite3.IntegrityError, caught
                /\ handlers' = [handlers EXCEPT ![h] = Returned(call, RetFalse)]
                /\ last' = Call("create_user", NULL, RetFalse)
                /\ UNCHANGED <<users, seq>>
           ELSE /\ users' = users @@ (call.name :>
                       [id |-> seq.users + 1, password_hash |-> _hash_password(call.text)])
                /\ seq' = [seq EXCEPT !.users = @ + 1]
                /\ handlers' = [handlers EXCEPT ![h] = Returned(call, RetTrue)]
                /\ last' = Call("create_user", NULL, RetTrue)
        /\ UNCHANGED <<folders, notes, todos, reminders, user_todos, now, tagging, sessions,
                       reply>>

create_note_call(h, user_id, title, content) ==
    /\ handlers[h].pc = "idle"
    /\ handlers' = [handlers EXCEPT ![h] =
           Running("create_note", "called", user_id, NULL, title, content, {}, FALSE)]
    /\ UNCHANGED <<users, folders, notes, todos, reminders, user_todos, now, tagging,
                   seq, sessions, last, reply>>

\* The INSERT of create_note on a table without UNIQUE(user_id, title).
create_note_insert_no_unique(h) ==
    LET call == handlers[h]
    IN  /\ call.op = "create_note" /\ call.pc = "called"
        /\ IF call.user_id \in RegisteredIds
           THEN /\ notes' = notes @@ (seq.notes + 1 :>
                       [user_id |-> call.user_id, title |-> call.name,
                        content |-> call.text, folder_id |-> NULL, modified_at |-> now])
                /\ seq' = [seq EXCEPT !.notes = @ + 1]
                /\ handlers' = [handlers EXCEPT ![h] =
                                   Returned(call, RetId(seq.notes + 1))]
                /\ last' = Call("create_note", call.user_id, RetId(seq.notes + 1))
           ELSE /\ handlers' = [handlers EXCEPT ![h] = Returned(call, RetNone)]
                /\ last' = Call("create_note", call.user_id, RetNone)
                /\ UNCHANGED <<notes, seq>>
        /\ UNCHANGED <<users, folders, todos, reminders, user_todos, now, tagging, sessions,
                       reply>>

create_note_insert(h) ==
    LET call == handlers[h]
    IN  /\ call.op = "create_note" /\ call.pc = "called"
        /\ IF call.user_id \in RegisteredIds /\ NoteRows(call.user_id, call.name) = {}
           THEN /\ notes' = notes @@ (seq.notes + 1 :>
                       [user_id |-> call.user_id, title |-> call.name,
                        content |-> call.text, folder_id |-> NULL, modified_at |-> now])
                /\ seq' = [seq EXCEPT !.notes = @ + 1]
                /\ handlers' = [handlers EXCEPT ![h] =
                                   Returned(call, RetId(seq.notes + 1))]
                /\ last' = Call("create_note", call.user_id, RetId(seq.notes + 1))
           ELSE \* FOREIGN KEY(user_id) or UNIQUE(user_id, title): IntegrityError, caught
                /\ handlers' = [handlers EXCEPT ![h] = Returned(call, RetNone)]
                /\ last' = Call("create_note", call.user_id, RetNone)
                /\ UNCHANGED <<notes, seq>>
        /\ UNCHANGED <<users, folders, todos, reminders, user_todos, now, tagging, sessions,
                       reply>>

(* ---------------------------------------------------- NoteDatabaseSystem *)

\* json.dumps({"success": ..., "message": ..., <payload>}) of the handler op.
Reply(op, success, message, data) ==
    [op |-> op, success |-> success, message |-> message, data |-> data]
Ok(op, message, data) == Reply(op, TRUE, message, data)
Fail(op, message) == Reply(op, FALSE, message, <<>>)

\* str.strip() on the strings the handlers are called with: surrounding blanks
\* go, a blank string becomes the empty one.
strip(s) ==
    CASE s = " "      -> ""
      [] s = " bob "  -> "bob"
      [] s = " pw1 "  -> "pw1"
      [] s = " t1 "   -> "t1"
      [] s = " x "    -> "x"
      [] OTHER        -> s

\* title LIKE '%query%' OR content LIKE '%query%'
Like(text, query) ==
    \/ query = text
    \/ query = "1" /\ text \in {"t1", "c1"}
    \/ query = "t" /\ text \in {"t1", "t2"}

RECURSIVE CleanTags(_)
\* [tag.strip() for tag in tags if tag.strip()]
CleanTags(names) ==
    IF names = <<>> THEN <<>>
    ELSE IF strip(Head(names)) = "" THEN CleanTags(Tail(names))
    ELSE <<strip(Head(names))>> \o CleanTags(Tail(names))

\* A handler that stores nothing: only its reply is new.
Replies(r) ==
    /\ reply' = r
    /\ UNCHANGED <<users, folders, notes, todos, reminders, user_todos, now, handlers, tagging, seq, sessions, last>>

register_user(username, password) ==
    IF strip(username) = ""
    THEN Replies(Fail("register_user", "Username is require and cannot be empty"))
    ELSE IF password = ""
    THEN Replies(Fail("register_user", "Password is required and cannot be empty"))
    ELSE IF strip(password) = ""
    THEN Replies(Fail("register_user", "Password cannot be only whitespace"))
    ELSE IF Len(strip(password)) < 3
    THEN Replies(Fail("register_user", "Password must be at least 3 characters long"))
    ELSE /\ create_user(strip(username), strip(password))
         /\ reply' = IF last'.ret = RetTrue
                     THEN Ok("register_user", "User registered successfully", <<>>)
                     ELSE Fail("register_user", "User registration failed")

\* login_user that looks the username up and does not test the password.
login_user_any_password(username, password, session_id) ==
    IF strip(username) = "" \/ strip(password) = ""
    THEN Replies(Fail("login_user", "Username is required and cannot be empty"))
    ELSE IF strip(username) \in DOMAIN users
    THEN /\ active_sessions' = active_sessions @@ (session_id :> strip(username))
         /\ issued' = issued \cup {session_id}
         /\ reply' = Ok("login_user", "Login successful", session_id)
         /\ UNCHANGED <<users, folders, notes, todos, reminders, user_todos, now, handlers, tagging, seq, last>>
    ELSE Replies(Fail("login_user", "Invalid username or password"))

\* login_user that keeps one session per user: a login ends the user's others.
login_user_single_session(username, password, session_id) ==
    IF strip(username) = "" \/ strip(password) = ""
    THEN Replies(Fail("login_user", "Username is required and cannot be empty"))
    ELSE IF verify_user(strip(username), strip(password))
    THEN /\ active_sessions' =
                Without(active_sessions,
                        {s \in DOMAIN active_sessions : active_sessions[s] = strip(username)})
                    @@ (session_id :> strip(username))
         /\ issued' = issued \cup {session_id}
         /\ reply' = Ok("login_user", "Login successful", session_id)
         /\ UNCHANGED <<users, folders, notes, todos, reminders, user_todos, now, handlers, tagging, seq, last>>
    ELSE Replies(Fail("login_user", "Invalid username or password"))

\* session_id is the string uuid.uuid4() returns: one no login has had.
login_user(username, password, session_id) ==
    IF strip(username) = ""
    THEN Replies(Fail("login_user", "Username is required and cannot be empty"))
    ELSE IF password = ""
    THEN Replies(Fail("login_user", "Password is required and cannot be empty"))
    ELSE IF strip(password) = ""
    THEN Replies(Fail("login_user", "Password cannot be only whitespace"))
    ELSE IF verify_user(strip(username), strip(password))
    THEN /\ active_sessions' = active_sessions @@ (session_id :> strip(username))
         /\ issued' = issued \cup {session_id}
         /\ reply' = Ok("login_user", "Login successful", session_id)
         /\ UNCHANGED <<users, folders, notes, todos, reminders, user_todos, now, handlers, tagging, seq, last>>
    ELSE Replies(Fail("login_user", "Invalid username or password"))

\* logout_user that ends every session of the token's user.
logout_user_all_of_user(session_id) ==
    IF session_id \in DOMAIN active_sessions
    THEN /\ active_sessions' =
                Without(active_sessions,
                        {s \in DOMAIN active_sessions :
                            active_sessions[s] = active_sessions[session_id]})
         /\ reply' = Ok("logout_user", "Logout successful", <<>>)
         /\ UNCHANGED <<users, folders, notes, todos, reminders, user_todos, now, handlers, tagging, seq, issued, last>>
    ELSE Replies(Fail("logout_user", "Invalid session"))

logout_user(session_id) ==
    IF session_id \in DOMAIN active_sessions
    THEN /\ active_sessions' = Without(active_sessions, {session_id})
         /\ reply' = Ok("logout_user", "Logout successful", <<>>)
         /\ UNCHANGED <<users, folders, notes, todos, reminders, user_todos, now, handlers, tagging, seq, issued, last>>
    ELSE Replies(Fail("logout_user", "Invalid session"))

\* logout_user up to its del: `session_id in self.active_sessions` has been
\* evaluated.  No lock is held between the test and the del.
logout_user_test(h, session_id) ==
    LET call == Running("logout_user", "tested", NULL, session_id, "", "", {}, FALSE)
    IN  /\ handlers[h].pc = "idle"
        /\ handlers' = [handlers EXCEPT ![h] =
               IF session_id \in DOMAIN active_sessions
               THEN call
               ELSE Returned([call EXCEPT !.text = "Invalid session"], RetFalse)]
        /\ UNCHANGED <<users, folders, notes, todos, reminders, user_todos, now, tagging,
                       seq, sessions, last, reply>>

\* logout_user from `del self.active_sessions[session_id]` on.  del of a key
\* that is gone raises KeyError: main.py lets it out of the call,
\* backend/main.py answers "Logout failed: ..." from its except clause.
logout_user_del(h) ==
    LET call == handlers[h]
    IN  /\ call.op = "logout_user" /\ call.pc = "tested"
        /\ IF call.id \in DOMAIN active_sessions
           THEN /\ active_sessions' = Without(active_sessions, {call.id})
                /\ handlers' = [handlers EXCEPT ![h] =
                       Returned([call EXCEPT !.text = "Logout successful"], RetTrue)]
           ELSE /\ UNCHANGED active_sessions
                /\ \/ handlers' = [handlers EXCEPT ![h] =
                          Returned(call, Raise("KeyError"))]
                   \/ handlers' = [handlers EXCEPT ![h] =
                          Returned([call EXCEPT !.text = "Logout failed"], RetFalse)]
        /\ UNCHANGED <<users, folders, notes, todos, reminders, user_todos, now, tagging,
                       seq, issued, last, reply>>

\* dict.get: "" stands for None, which `if not username` treats alike.
_get_username_from_session(session_id) ==
    IF session_id \in DOMAIN active_sessions THEN active_sessions[session_id] ELSE ""

\* _validate_session that resolves every token to the first user.
_validate_session_any_token(session_id) == 1

_validate_session(session_id) ==
    LET username == _get_username_from_session(session_id)
    IN  IF username = "" THEN NULL ELSE get_user_id(username)

NotLoggedIn(op) == Replies(Fail(op, "Not logged in"))

System_create_note(session_id, title, content) ==
    LET user_id == _validate_session(session_id)
    IN  IF user_id = NULL THEN NotLoggedIn("create_note")
        ELSE IF strip(title) = "" \/ strip(content) = ""
        THEN Replies(Fail("create_note", "Title and content are required"))
        ELSE /\ create_note(user_id, strip(title), strip(content), NULL)
             /\ reply' = IF last'.ret.kind = "id"
                         THEN Ok("create_note", "Note created successfully", <<last'.ret.id>>)
                         ELSE Fail("create_note", "Note title already exists")

\* get_note_by_title: the row and its tags, or <<>> for None.
get_note_by_title(user_id, title) ==
    LET rows == NoteRows(user_id, title)
    IN  IF rows = {} THEN <<>>
        ELSE LET n == CHOOSE m \in rows : TRUE
             IN  <<[id |-> n, title |-> notes[n].title, content |-> notes[n].content,
                    modified_at |-> notes[n].modified_at,
                    folder_id |-> notes[n].folder_id,
                    tags |-> TagNames(tags, note_tags, n)]>>

get_note(session_id, title) ==
    LET user_id == _validate_session(session_id)
    IN  IF user_id = NULL THEN NotLoggedIn("get_note")
        ELSE IF strip(title) = ""
        THEN Replies(Fail("get_note", "Title is required"))
        ELSE IF get_note_by_title(user_id, strip(title)) # <<>>
        THEN Replies(Ok("get_note", "", get_note_by_title(user_id, strip(title))))
        ELSE Replies(Fail("get_note", "Note not found"))

\* The ids of the rows get_user_notes returns (their order is modified_at's).
list_notes(session_id) ==
    LET user_id == _validate_session(session_id)
    IN  IF user_id = NULL THEN NotLoggedIn("list_notes")
        ELSE Replies(Ok("list_notes", "",
                InRowidOrder({n \in DOMAIN notes : notes[n].user_id = user_id})))

search_notes(session_id, query) ==
    LET user_id == _validate_session(session_id)
    IN  IF user_id = NULL THEN NotLoggedIn("search_notes")
        ELSE IF strip(query) = ""
        THEN Replies(Fail("search_notes", "Search query is required"))
        ELSE Replies(Ok("search_notes", "",
                InRowidOrder({n \in DOMAIN notes :
                    /\ notes[n].user_id = user_id
                    /\ \/ Like(notes[n].title, strip(query))
                       \/ Like(notes[n].content, strip(query))})))

edit_note(session_id, title, new_content) ==
    LET user_id == _validate_session(session_id)
    IN  IF user_id = NULL THEN NotLoggedIn("edit_note")
        ELSE IF strip(title) = "" \/ strip(new_content) = ""
        THEN Replies(Fail("edit_note", "Title and content are required"))
        ELSE /\ update_note_content(user_id, strip(title), strip(new_content))
             /\ reply' = IF last'.ret = RetTrue
                         THEN Ok("edit_note", "Note updated successfully", <<>>)
                         ELSE Fail("edit_note", "Note not found")

\* NoteDatabase has no update_note_title: the call raises AttributeError, which
\* the handler's except clause reports.
update_note_title(session_id, old_title, new_title) ==
    LET user_id == _validate_session(session_id)
    IN  IF user_id = NULL THEN NotLoggedIn("update_note_title")
        ELSE IF strip(old_title) = "" \/ strip(new_title) = ""
        THEN Replies(Fail("update_note_title", "Both titles are required"))
        ELSE IF get_note_by_title(user_id, strip(new_title)) # <<>>
        THEN Replies(Fail("update_note_title", "Original note not found"))
        ELSE Replies(Fail("update_note_title", "Failed to update note title: AttributeError"))

System_delete_note(session_id, title) ==
    LET user_id == _validate_session(session_id)
    IN  IF user_id = NULL THEN NotLoggedIn("delete_note")
        ELSE IF strip(title) = ""
        THEN Replies(Fail("delete_note", "Title is required"))
        ELSE /\ delete_note(user_id, strip(title))
             /\ reply' = CASE last'.ret = RetTrue ->
                                Ok("delete_note", "Note deleted successfully", <<>>)
                           [] last'.ret = RetFalse ->
                                Fail("delete_note", "Note not found")
                           [] OTHER ->
                                Fail("delete_note", "Failed to delete note: IntegrityError")

add_tags(session_id, title, names) ==
    LET user_id == _validate_session(session_id)
    IN  IF user_id = NULL THEN NotLoggedIn("add_tags")
        ELSE IF strip(title) = ""
        THEN Replies(Fail("add_tags", "Title is required"))
        ELSE IF CleanTags(names) = <<>>
        THEN Replies(Fail("add_tags", "At least one valid tag is required"))
        ELSE /\ add_note_tags(user_id, strip(title), CleanTags(names))
             /\ reply' = IF last'.ret.kind = "tags"
                         THEN Ok("add_tags", "", last'.ret.tags)
                         ELSE Fail("add_tags", "Note not found")

\* ORDER BY modified_at DESC LIMIT 1 over the notes of the user: the rows the
\* query can return, as [title, modified_at]; rows of one modified_at come in
\* any order.  No row stands for recent_note {title: None, modified_at: None}.
RecentNotes(user_id) ==
    LET own == {n \in DOMAIN notes : notes[n].user_id = user_id}
    IN  {[title |-> notes[n].title, modified_at |-> notes[n].modified_at] :
            n \in {m \in own : \A o \in own : notes[o].modified_at <= notes[m].modified_at}}

\* get_user_stats whose tag count joins the todos' associations as well.
get_user_stats_counting_todo_tags(user_id) ==
    [total_notes |-> Cardinality({n \in DOMAIN notes : notes[n].user_id = user_id}),
     total_tags |-> Cardinality({l[2] : l \in
                        {x \in note_tags :
                            x[1] \in DOMAIN notes /\ notes[x[1]].user_id = user_id}
                        \cup {x \in todo_tags :
                            x[1] \in DOMAIN todos /\ todos[x[1]].user_id = user_id}}),
     total_todos |-> Cardinality({t \in DOMAIN todos : todos[t].user_id = user_id}),
     total_folders |-> Cardinality({f \in DOMAIN folders : folders[f].user_id = user_id}),
     total_reminders |->
        Cardinality({r \in DOMAIN reminders : reminders[r].user_id = user_id}),
     recent_note |-> RecentNotes(user_id)]

get_user_stats(user_id) ==
    [total_notes |-> Cardinality({n \in DOMAIN notes : notes[n].user_id = user_id}),
     total_tags |-> Cardinality({l[2] : l \in {x \in note_tags :
                        x[1] \in DOMAIN notes /\ notes[x[1]].user_id = user_id}}),
     total_todos |-> Cardinality({t \in DOMAIN todos : todos[t].user_id = user_id}),
     total_folders |-> Cardinality({f \in DOMAIN folders : folders[f].user_id = user_id}),
     total_reminders |->
        Cardinality({r \in DOMAIN reminders : reminders[r].user_id = user_id}),
     recent_note |-> RecentNotes(user_id)]

get_stats(session_id) ==
    LET user_id == _validate_session(session_id)
    IN  IF user_id = NULL THEN NotLoggedIn("get_stats")
        ELSE Replies(Ok("get_stats", "", <<get_user_stats(user_id)>>))

\* db.create_todo and then, for a non-empty clean tag list, db.add_todo_tags on
\* the new id.  The user of a session is registered, so the INSERT goes through.
System_create_todo(session_id, title, priority, names, note_title) ==
    LET user_id == _validate_session(session_id)
        stored == IF priority \in {"low", "normal", "high"} THEN priority ELSE "normal"
        todo_id == seq.todos + 1
        rows == IF note_title = "" THEN {} ELSE NoteRows(user_id, strip(note_title))
        st == AttachAll([tags |-> tags, n |-> seq.tags, links |-> todo_tags],
                        todo_id, CleanTags(names))
    IN  IF user_id = NULL THEN NotLoggedIn("create_todo")
        ELSE IF strip(title) = ""
        THEN Replies(Fail("create_todo", "Title is required"))
        ELSE /\ todos' = todos @@ (todo_id :>
                    [user_id |-> user_id, title |-> strip(title), priority |-> stored,
                     completed |-> FALSE,
                     note_id |-> IF rows = {} THEN NULL ELSE CHOOSE n \in rows : TRUE])
             /\ tags' = st.tags
             /\ todo_tags' = st.links
             /\ seq' = [seq EXCEPT !.todos = todo_id, !.tags = st.n]
             /\ last' = IF CleanTags(names) = <<>>
                        THEN Call("create_todo", user_id, RetId(todo_id))
                        ELSE Call("add_todo_tags", user_id,
                                  RetTags(TagNames(st.tags, st.links, todo_id)))
             /\ reply' = Ok("create_todo", "Todo created", <<todo_id>>)
             /\ UNCHANGED <<users, folders, notes, reminders, user_todos, now, handlers, note_tags, sessions>>

\* The ids of the rows get_user_todos returns without a filter.
list_todos(session_id) ==
    LET user_id == _validate_session(session_id)
    IN  IF user_id = NULL THEN NotLoggedIn("list_todos")
        ELSE Replies(Ok("list_todos", "",
                InRowidOrder({t \in DOMAIN todos : todos[t].user_id = user_id})))

System_toggle_todo(session_id, todo_id) ==
    LET user_id == _validate_session(session_id)
    IN  IF user_id = NULL THEN NotLoggedIn("toggle_todo")
        ELSE /\ toggle_todo(user_id, todo_id)
             /\ reply' = IF last'.ret = RetTrue
                         THEN Ok("toggle_todo", "Todo updated", <<>>)
                         ELSE Fail("toggle_todo", "Todo not found")

System_delete_todo(session_id, todo_id) ==
    LET user_id == _validate_session(session_id)
    IN  IF user_id = NULL THEN NotLoggedIn("delete_todo")
        ELSE /\ delete_todo(user_id, todo_id)
             /\ reply' = IF last'.ret = RetTrue
                         THEN Ok("delete_todo", "Todo deleted", <<>>)
                         ELSE Fail("delete_todo", "Todo not found")

(* ------------------------------------------- main.py: the in-memory todos *)

\* user_todos after _ensure_user_todos(username).
_ensure_user_todos(username) ==
    IF username \in DOMAIN user_todos THEN user_todos
    ELSE user_todos @@ (username :> <<>>)

\* The positions of the todos of username that carry the id, in list order.
Matches(username, todo_id) ==
    LET ut == _ensure_user_todos(username)[username]
    IN  {i \in 1..Len(ut) : ut[i].id = todo_id}

\* The first position the loop `for t in user_todos[username]` stops at.
FirstMatch(username, todo_id) ==
    CHOOSE i \in Matches(username, todo_id) :
        \A j \in Matches(username, todo_id) : i <= j

\* The list without its element at position i: del user_todos[username][i].
DelAt(list, i) ==
    [k \in 1..(Len(list) - 1) |-> IF k < i THEN list[k] ELSE list[k + 1]]

\* main.py's create_todo without due date, tags or reminder.
InMemory_create_todo(username, title, priority, note_title) ==
    LET ut == _ensure_user_todos(username)
        id == Len(ut[username]) + 1
    IN  /\ IF priority \notin {"low", "normal", "high"}
           THEN /\ user_todos' = ut
                /\ reply' = Fail("create_todo", "Invalid priority")
           ELSE /\ user_todos' = [ut EXCEPT ![username] = Append(@,
                       [id |-> id, title |-> title, priority |-> priority,
                        completed |-> FALSE, note_title |-> note_title])]
                /\ reply' = Ok("create_todo", "Todo created", <<id>>)
        /\ UNCHANGED <<users, folders, notes, todos, reminders, now, handlers, tagging, seq, sessions, last>>

\* main.py's toggle_todo; completed is "None" (flip), "True" or "False".
InMemory_toggle_todo(username, todo_id, completed) ==
    LET ut == _ensure_user_todos(username)
    IN  /\ IF Matches(username, todo_id) = {}
           THEN /\ user_todos' = ut
                /\ reply' = Fail("toggle_todo", "Todo not found")
           ELSE /\ user_todos' = [ut EXCEPT ![username][FirstMatch(username, todo_id)].completed =
                                      IF completed = "None" THEN ~@ ELSE completed = "True"]
                /\ reply' = Ok("toggle_todo", "Todo updated", <<>>)
        /\ UNCHANGED <<users, folders, notes, todos, reminders, now, handlers, tagging, seq, sessions, last>>

\* main.py's delete_todo.
InMemory_delete_todo(username, todo_id) ==
    LET ut == _ensure_user_todos(username)
    IN  /\ IF Matches(username, todo_id) = {}
           THEN /\ user_todos' = ut
                /\ reply' = Fail("delete_todo", "Todo not found")
           ELSE /\ user_todos' = [ut EXCEPT ![username] =
                                      DelAt(@, FirstMatch(username, todo_id))]
                /\ reply' = Ok("delete_todo", "Todo deleted", <<>>)
        /\ UNCHANGED <<users, folders, notes, todos, reminders, now, handlers, tagging, seq, sessions, last>>

(* ------------------------------------- what a NoteDatabase call hands back *)

\* The tables the calls by id or title read.
Store == [folders |-> folders, notes |-> notes, todos |-> todos, reminders |-> reminders]

\* WHERE id = ? AND user_id = ? finds a row of the table.
OwnRow(table, user_id, id) == id \in DOMAIN table /\ table[id].user_id = user_id

\* The ids of the notes WHERE user_id = ? AND title = ? finds.
OwnNotes(db, user_id, title) ==
    {n \in DOMAIN db.notes : db.notes[n].user_id = user_id /\ db.notes[n].title = title}

\* What each call returns or raises when it runs on the tables db.
Ret_create_folder(db, user_id, parent_id) ==
    IF parent_id = NULL \/ parent_id \in DOMAIN db.folders \cup {seq.folders + 1}
    THEN RetId(seq.folders + 1)
    ELSE Raise("IntegrityError")

Ret_rename_folder(db, user_id, folder_id) == RetBool(OwnRow(db.folders, user_id, folder_id))

Ret_move_folder(db, user_id, folder_id, new_parent_id) ==
    IF new_parent_id = folder_id THEN RetFalse
    ELSE IF ~OwnRow(db.folders, user_id, folder_id) THEN RetFalse
    ELSE IF new_parent_id # NULL /\ new_parent_id \notin DOMAIN db.folders
    THEN Raise("IntegrityError")
    ELSE RetTrue

\* _collect_descendants reads the rows of user_id only.
Ret_delete_folder(db, user_id, folder_id) ==
    IF _collect_descendants(user_id, folder_id, 1).raised THEN Raise("RecursionError")
    ELSE RetBool(OwnRow(db.folders, user_id, folder_id))

Ret_set_note_folder(db, user_id, title, folder_id) ==
    RetBool(OwnNotes(db, user_id, title) # {})

Ret_toggle_todo(db, user_id, todo_id) == RetBool(OwnRow(db.todos, user_id, todo_id))

Ret_delete_todo(db, user_id, todo_id) == RetBool(OwnRow(db.todos, user_id, todo_id))

Ret_delete_reminder(db, user_id, reminder_id) ==
    RetBool(OwnRow(db.reminders, user_id, reminder_id))

\* The rows get_note_by_title hands back: one, or none for None.
Ret_get_note_by_title(db, user_id, title) ==
    {db.notes[n] : n \in OwnNotes(db, user_id, title)}

Ret_delete_note(db, user_id, title) ==
    IF \E t \in DOMAIN db.todos : db.todos[t].note_id \in OwnNotes(db, user_id, title)
    THEN Raise("IntegrityError")
    ELSE RetBool(OwnNotes(db, user_id, title) # {})

(* --------------------------------------------------------- specifications *)

\* A database file in which both users are registered already.
BothRegistered ==
    [n \in Usernames |->
        [id |-> IF n = "alice" THEN 1 ELSE 2, password_hash |-> _hash_password("pw1")]]

NoRows ==
    /\ folders = <<>>
    /\ notes = <<>>
    /\ todos = <<>>
    /\ reminders = <<>>
    /\ user_todos = <<>>
    /\ now = 0
    /\ handlers = [h \in HandlerIds |-> Idle]
    /\ tags = <<>>
    /\ note_tags = {}
    /\ todo_tags = {}
    /\ active_sessions = <<>>
    /\ issued = {}
    /\ last = Call("", NULL, RetNone)
    /\ reply = NoReply

NoIds == [users |-> 0, folders |-> 0, notes |-> 0, todos |-> 0, reminders |-> 0, tags |-> 0]

\* A fresh database file.
Init ==
    /\ users = <<>>
    /\ seq = NoIds
    /\ NoRows

\* A database file that holds the two users and nothing else.
InitRegistered ==
    /\ users = BothRegistered
    /\ seq = [NoIds EXCEPT !.users = Cardinality(Usernames)]
    /\ NoRows

\* The folder tree and the notes placed in it, called by two owners.
NextFolders ==
    \/ \E u \in UserIds, p \in FolderIds \cup {NULL} :
          seq.folders < MaxFolderId /\ create_folder(u, "A", p) /\ UNCHANGED reply
    \/ \E u \in UserIds, f \in FolderIds, p \in FolderIds \cup {NULL} :
          move_folder(u, f, p) /\ UNCHANGED reply
    \/ \E u \in UserIds, f \in FolderIds :
          delete_folder(u, f) /\ UNCHANGED reply
    \/ \E u \in UserIds, t \in Titles, c \in Contents, f \in FolderIds \cup {NULL} :
          seq.notes < MaxNoteId /\ create_note(u, t, c, f) /\ UNCHANGED reply
    \/ \E u \in UserIds, t \in Titles, f \in FolderIds \cup {NULL} :
          set_note_folder(u, t, f) /\ UNCHANGED reply

SpecFolders == InitRegistered /\ [][NextFolders]_vars

\* The folder tree with its names, called by two owners; the notes are alice's.
NextTree ==
    \/ \E u \in UserIds, n \in FolderNames, p \in TreeIds \cup {NULL} :
          seq.folders < MaxTreeFolders /\ create_folder(u, n, p) /\ UNCHANGED reply
    \/ \E u \in UserIds, f \in TreeIds, n \in FolderNames :
          rename_folder(u, f, n) /\ UNCHANGED reply
    \/ \E u \in UserIds, f \in TreeIds, p \in TreeIds \cup {NULL} :
          move_folder(u, f, p) /\ UNCHANGED reply
    \/ \E u \in UserIds, f \in TreeIds :
          delete_folder(u, f) /\ UNCHANGED reply
    \/ \E t \in Titles, c \in Contents, f \in TreeIds \cup {NULL} :
          seq.notes < MaxNoteId /\ create_note(1, t, c, f) /\ UNCHANGED reply
    \/ \E t \in Titles, f \in TreeIds \cup {NULL} :
          set_note_folder(1, t, f) /\ UNCHANGED reply

SpecTree == InitRegistered /\ [][NextTree]_vars

\* The notes of two owners, from a fresh database file.
NextNotes ==
    \/ \E n \in Usernames, p \in Passwords : create_user(n, p) /\ UNCHANGED reply
    \/ \E u \in UserIds, t \in NoteTitles, c \in NoteContents :
          seq.notes < MaxNoteId /\ create_note(u, t, c, NULL) /\ UNCHANGED reply
    \/ \E u \in UserIds, t \in NoteTitles, c \in NoteContents :
          update_note_content(u, t, c) /\ UNCHANGED reply
    \/ \E u \in UserIds, t \in NoteTitles :
          delete_note(u, t) /\ UNCHANGED reply

SpecNotes == Init /\ [][NextNotes]_vars

\* Every table of the store, called by two owners with each other's ids.
NextStore ==
    \/ \E u \in UserIds, p \in StoreFolderIds \cup {NULL} :
          seq.folders < MaxStoreFolders /\ create_folder(u, "A", p) /\ UNCHANGED reply
    \/ \E u \in UserIds, f \in StoreFolderIds, p \in StoreFolderIds \cup {NULL} :
          move_folder(u, f, p) /\ UNCHANGED reply
    \/ \E u \in UserIds, f \in StoreFolderIds :
          delete_folder(u, f) /\ UNCHANGED reply
    \/ \E u \in UserIds, t \in Titles, c \in Contents :
          seq.notes < MaxStoreRows /\ create_note(u, t, c, NULL) /\ UNCHANGED reply
    \/ \E u \in UserIds, t \in Titles, f \in StoreFolderIds \cup {NULL} :
          set_note_folder(u, t, f) /\ UNCHANGED reply
    \/ \E u \in UserIds, t \in Titles :
          delete_note(u, t) /\ UNCHANGED reply
    \/ \E u \in UserIds, t \in Titles, l \in TagLists :
          seq.tags + Len(l) <= MaxTagId /\ add_note_tags(u, t, l) /\ UNCHANGED reply
    \/ \E u \in UserIds, p \in Priorities, t \in Titles \cup {""} :
          seq.todos < MaxStoreRows /\ create_todo(u, "todo", p, t) /\ UNCHANGED reply
    \/ \E u \in UserIds, t \in StoreRowIds :
          toggle_todo(u, t) /\ UNCHANGED reply
    \/ \E u \in UserIds, t \in StoreRowIds :
          delete_todo(u, t) /\ UNCHANGED reply
    \/ \E u \in UserIds, t \in StoreRowIds, l \in TagLists :
          seq.tags + Len(l) <= MaxTagId /\ add_todo_tags(u, t, l) /\ UNCHANGED reply
    \/ \E u \in UserIds :
          seq.reminders < MaxStoreRows /\ create_reminder(u, "r", "soon") /\ UNCHANGED reply
    \/ \E u \in UserIds, r \in StoreRowIds :
          delete_reminder(u, r) /\ UNCHANGED reply

SpecStore == InitRegistered /\ [][NextStore]_vars

\* Registration, login and logout, from a fresh database file.
NextLogin ==
    \/ \E n \in RawUsernames, p \in RawPasswords : register_user(n, p)
    \/ \E n \in RawUsernames, p \in RawPasswords, s \in Tokens \ issued :
          login_user(n, p, s)
    \/ \E s \in SessionIds : logout_user(s)

SpecLogin == Init /\ [][NextLogin]_vars

\* The handlers of notes, tags, stats and todos, called with every session id.
NextSessions ==
    \/ \E n \in Usernames, p \in Passwords, s \in Tokens \ issued : login_user(n, p, s)
    \/ \E s \in SessionIds : logout_user(s)
    \/ \E s \in SessionIds, t \in RawTitles, c \in Contents :
          seq.notes < MaxStoreRows /\ System_create_note(s, t, c)
    \/ \E s \in SessionIds, t \in RawTitles : get_note(s, t)
    \/ \E s \in SessionIds : list_notes(s)
    \/ \E s \in SessionIds : search_notes(s, "1")
    \/ \E s \in SessionIds, t \in RawTitles : edit_note(s, t, "c2")
    \/ \E s \in SessionIds, t \in RawTitles : update_note_title(s, t, "t2")
    \/ \E s \in SessionIds, t \in RawTitles : System_delete_note(s, t)
    \/ \E s \in SessionIds, t \in RawTitles, l \in RawTagLists :
          seq.tags + Len(l) <= MaxTagId /\ add_tags(s, t, l)
    \/ \E s \in SessionIds : get_stats(s)
    \/ \E s \in SessionIds, l \in RawTagLists, t \in {"", "t1"} :
          /\ seq.todos < MaxStoreRows
          /\ seq.tags + Len(l) <= MaxTagId
          /\ System_create_todo(s, "todo", "urgent", l, t)
    \/ \E s \in SessionIds : list_todos(s)
    \/ \E s \in SessionIds, t \in StoreRowIds : System_toggle_todo(s, t)
    \/ \E s \in SessionIds, t \in StoreRowIds : System_delete_todo(s, t)

SpecSessions == InitRegistered /\ [][NextSessions]_vars

\* Sessions of two users over registrations, logins, logouts and note handlers.
NextLifetime ==
    \/ \E n \in Usernames, p \in Passwords : register_user(n, p)
    \/ \E n \in Usernames, p \in Passwords, s \in Tokens \ issued : login_user(n, p, s)
    \/ \E s \in SessionIds : logout_user(s)
    \/ \E s \in SessionIds, t \in Titles, c \in Contents :
          seq.notes < MaxStoreRows /\ System_create_note(s, t, c)
    \/ \E s \in SessionIds, t \in Titles : edit_note(s, t, "c2")
    \/ \E s \in SessionIds, t \in Titles : System_delete_note(s, t)

SpecLifetime == Init /\ [][NextLifetime]_vars

\* Accounts with two passwords: registrations, logins right and wrong, logouts.
NextAccounts ==
    \/ \E n \in AccountNames, p \in AccountPasswords : register_user(n, p)
    \/ \E n \in AccountNames, p \in AccountPasswords, s \in Tokens \ issued :
          login_user(n, p, s)
    \/ \E s \in SessionIds : logout_user(s)

SpecAccounts == Init /\ [][NextAccounts]_vars

\* Registrations with two passwords, and the notes of the registered users.
NextRegister ==
    \/ \E n \in AccountNames, p \in AccountPasswords : register_user(n, p)
    \/ \E u \in UserIds, t \in Titles, c \in Contents :
          seq.notes < MaxStoreRows /\ create_note(u, t, c, NULL) /\ UNCHANGED reply
    \/ \E u \in UserIds, t \in Titles : delete_note(u, t) /\ UNCHANGED reply

SpecRegister == Init /\ [][NextRegister]_vars

\* Tags on the notes and todos of two owners.
NextTags ==
    \/ \E u \in UserIds, t \in Titles, c \in Contents :
          seq.notes < MaxTaggedNotes /\ create_note(u, t, c, NULL) /\ UNCHANGED reply
    \/ \E u \in UserIds, t \in Titles : delete_note(u, t) /\ UNCHANGED reply
    \/ \E u \in UserIds, t \in Titles, l \in TagNameLists :
          seq.tags + Len(l) <= MaxTagSeq /\ add_note_tags(u, t, l) /\ UNCHANGED reply
    \/ \E u \in UserIds, p \in Priorities :
          seq.todos < MaxStoreRows /\ create_todo(u, "todo", p, "") /\ UNCHANGED reply
    \/ \E u \in UserIds, t \in StoreRowIds : delete_todo(u, t) /\ UNCHANGED reply
    \/ \E u \in UserIds, t \in StoreRowIds, l \in TagNameLists :
          seq.tags + Len(l) <= MaxTagSeq /\ add_todo_tags(u, t, l) /\ UNCHANGED reply

SpecTags == InitRegistered /\ [][NextTags]_vars

\* Todos created through the three create_todo functions by a logged-in user.
NextPriority ==
    \/ \E s \in Tokens \ issued : login_user("alice", "pw1", s)
    \/ \E s \in SessionIds, p \in GivenPriorities :
          seq.todos < MaxTodos /\ System_create_todo(s, "todo", p, <<>>, "")
    \/ \E u \in UserIds, p \in GivenPriorities :
          seq.todos < MaxTodos /\ create_todo(u, "todo", p, "") /\ UNCHANGED reply
    \/ \E n \in Usernames, p \in GivenPriorities :
          /\ Len(_ensure_user_todos(n)[n]) < MaxTodos
          /\ InMemory_create_todo(n, "todo", p, "")

SpecPriority == InitRegistered /\ [][NextPriority]_vars

\* Todos created, toggled and deleted by id, in the table and in memory.
NextToggle ==
    \/ \E u \in UserIds :
          seq.todos < MaxTodos /\ create_todo(u, "todo", "normal", "") /\ UNCHANGED reply
    \/ \E u \in UserIds, t \in TodoIds : toggle_todo(u, t) /\ UNCHANGED reply
    \/ \E u \in UserIds, t \in TodoIds : delete_todo(u, t) /\ UNCHANGED reply
    \/ \E n \in Usernames :
          /\ Len(_ensure_user_todos(n)[n]) < MaxTodos
          /\ InMemory_create_todo(n, "todo", "normal", "")
    \/ \E n \in Usernames, t \in TodoIds : InMemory_toggle_todo(n, t, "None")
    \/ \E n \in Usernames, t \in TodoIds : InMemory_delete_todo(n, t)

SpecToggle == InitRegistered /\ [][NextToggle]_vars

\* Todos created with the title of a note, by the owner of the note and by
\* another user, through the table's method and through the handler; notes
\* are deleted when no todo is linked to them.
NextLinks ==
    \/ \E u \in UserIds, t \in LinkTitles :
          seq.notes < MaxLinkNotes /\ create_note(u, t, "c1", NULL) /\ UNCHANGED reply
    \/ \E u \in UserIds, t \in LinkTitles : delete_note(u, t) /\ UNCHANGED reply
    \/ \E u \in UserIds, t \in GivenNoteTitles :
          seq.todos < MaxTodos /\ create_todo(u, "todo", "normal", t) /\ UNCHANGED reply
    \/ \E s \in Tokens \ issued : issued = {} /\ login_user("bob", "pw1", s)
    \/ \E s \in DOMAIN active_sessions, t \in RawNoteTitles :
          seq.todos < MaxTodos /\ System_create_todo(s, "todo", "normal", <<>>, t)

SpecLinks == InitRegistered /\ [][NextLinks]_vars

\* Alice's rows, and the calls of both users by folder id, row id and title.
NextHidden ==
    \/ \E u \in UserIds, p \in StoreFolderIds \cup {NULL} :
          seq.folders < MaxStoreFolders /\ create_folder(u, "A", p) /\ UNCHANGED reply
    \/ \E u \in UserIds, f \in StoreFolderIds :
          rename_folder(u, f, "A") /\ UNCHANGED reply
    \/ \E u \in UserIds, f \in StoreFolderIds, p \in StoreFolderIds \cup {NULL} :
          move_folder(u, f, p) /\ UNCHANGED reply
    \/ \E u \in UserIds, f \in StoreFolderIds :
          delete_folder(u, f) /\ UNCHANGED reply
    \/ seq.notes < MaxStoreRows /\ create_note(1, "t1", "c1", NULL) /\ UNCHANGED reply
    \/ \E u \in UserIds, f \in StoreFolderIds :
          set_note_folder(u, "t1", f) /\ UNCHANGED reply
    \/ \E u \in UserIds : delete_note(u, "t1") /\ UNCHANGED reply
    \/ seq.todos < MaxStoreRows /\ create_todo(1, "todo", "normal", "") /\ UNCHANGED reply
    \/ \E u \in UserIds, t \in StoreRowIds : toggle_todo(u, t) /\ UNCHANGED reply
    \/ \E u \in UserIds, t \in StoreRowIds : delete_todo(u, t) /\ UNCHANGED reply
    \/ seq.reminders < MaxStoreRows /\ create_reminder(1, "r", "soon") /\ UNCHANGED reply
    \/ \E u \in UserIds, r \in StoreRowIds : delete_reminder(u, r) /\ UNCHANGED reply

SpecHidden == InitRegistered /\ [][NextHidden]_vars

\* The rows get_user_stats counts, of two users, and alice asking for her stats.
NextStats ==
    \/ \E t \in NoteTitles :
          seq.notes < MaxStatNotes /\ create_note(1, t, "c1", NULL) /\ UNCHANGED reply
    \/ seq.notes < MaxStatNotes /\ create_note(2, "t1", "c1", NULL) /\ UNCHANGED reply
    \/ update_note_content(1, "t1", "c1") /\ UNCHANGED reply
    \/ \E u \in UserIds, l \in NoteTagLists :
          seq.tags < MaxTaggedNotes /\ add_note_tags(u, "t1", l) /\ UNCHANGED reply
    \/ seq.todos < MaxStoreRows /\ create_todo(1, "todo", "normal", "") /\ UNCHANGED reply
    \/ \E l \in TodoTagLists :
          seq.tags < MaxTaggedNotes /\ add_todo_tags(1, 1, l) /\ UNCHANGED reply
    \/ seq.folders < MaxStoreRows /\ create_folder(2, "A", NULL) /\ UNCHANGED reply
    \/ seq.reminders < MaxStoreRows /\ create_reminder(1, "r", "soon") /\ UNCHANGED reply
    \/ now < MaxClock /\ Tick
    \/ issued = {} /\ login_user("alice", "pw1", 1)
    \/ \E s \in DOMAIN active_sessions : get_stats(s)

SpecStats == InitRegistered /\ [][NextStats]_vars

\* One owner, two callers: one deletes a folder step by step while the other
\* creates folders and files a note, each time under a folder that exists.
NextRaceFolders ==
    \/ \E p \in RaceFolderIds \cup {NULL} :
          /\ seq.folders < MaxRaceFolders
          /\ p = NULL \/ p \in DOMAIN folders
          /\ create_folder(1, "A", p) /\ UNCHANGED reply
    \/ seq.notes < MaxRaceNotes /\ create_note(1, "t1", "c1", NULL) /\ UNCHANGED reply
    \/ \E f \in DOMAIN folders : set_note_folder(1, "t1", f) /\ UNCHANGED reply
    \/ \E f \in RaceFolderIds : delete_folder_collect(1, 1, f)
    \/ delete_folder_write(1)

SpecRaceFolders == InitRegistered /\ [][NextRaceFolders]_vars

\* Todos are created not completed; two callers each toggle one todo of its
\* owner once, step by step.
NextRaceToggle ==
    \/ \E u \in UserIds :
          seq.todos < MaxRaceTodos /\ create_todo(u, "todo", "normal", "") /\ UNCHANGED reply
    \/ \E h \in HandlerIds, u \in UserIds, t \in DOMAIN todos :
          TodoRows(u, t) # {} /\ toggle_todo_read(h, u, t)
    \/ \E h \in HandlerIds : toggle_todo_write(h)

SpecRaceToggle == InitRegistered /\ [][NextRaceToggle]_vars

\* Logins of two users, and two callers that each log one token out once,
\* step by step.
NextRaceLogout ==
    \/ \E n \in Usernames, s \in Tokens \ issued : login_user(n, "pw1", s)
    \/ \E h \in HandlerIds, s \in SessionIds : logout_user_test(h, s)
    \/ \E h \in HandlerIds : logout_user_del(h)

SpecRaceLogout == InitRegistered /\ [][NextRaceLogout]_vars

\* A database file that holds alice and nothing else.
InitOneUser ==
    /\ users = [n \in {"alice"} |-> BothRegistered[n]]
    /\ seq = [NoIds EXCEPT !.users = 1]
    /\ NoRows

\* Two callers, each registering a user or creating a note once; the INSERTs
\* come in either order.
NextRaceCreate ==
    \/ \E h \in HandlerIds, n \in Usernames, p \in AccountPasswords :
          create_user_call(h, n, p)
    \/ \E h \in HandlerIds : create_user_insert(h)
    \/ \E h \in HandlerIds, u \in UserIds, t \in Titles, c \in RaceContents :
          create_note_call(h, u, t, c)
    \/ \E h \in HandlerIds : create_note_insert(h)

SpecRaceCreate == InitOneUser /\ [][NextRaceCreate]_vars

(* ------------------------------------------------------------ properties *)

\* C1: no two notes share (user_id, title); create_note(u, t, c) with a title u
\* already has returns None and leaves the notes as they are, and with a title
\* u does not have (whoever else has it) it stores the note and returns its id.
C1_NoteTitleUniquePerOwner ==
    /\ [](\A m, n \in DOMAIN notes :
            (notes[m].user_id = notes[n].user_id /\ notes[m].title = notes[n].title)
                => m = n)
    /\ [][\A u \in UserIds, t \in NoteTitles, c \in NoteContents :
            create_note(u, t, c, NULL) =>
                IF NoteRows(u, t) # {}
                THEN last'.ret = RetNone /\ notes' = notes
                ELSE IF u \in RegisteredIds
                THEN /\ last'.ret = RetId(seq.notes + 1)
                     /\ seq.notes + 1 \notin DOMAIN notes
                     /\ notes' = notes @@ (seq.notes + 1 :>
                            [user_id |-> u, title |-> t, content |-> c, folder_id |-> NULL,
                             modified_at |-> now])
                ELSE last'.ret = RetNone /\ notes' = notes]_vars

\* alice's second create_note with the title t1 was refused, her note keeps its
\* content c1, and bob has a note with the same title.
C1_Witness ==
    /\ last = Call("create_note", 1, RetNone)
    /\ 1 \in RegisteredIds
    /\ \E m, n \in DOMAIN notes :
          /\ notes[m] = [user_id |-> 1, title |-> "t1", content |-> "c1", folder_id |-> NULL,
                         modified_at |-> now]
          /\ notes[n].user_id = 2 /\ notes[n].title = "t1"

\* The folder reached from f by following parent_id k times (NULL past a root).
RECURSIVE Up(_, _)
Up(f, k) ==
    IF k = 0 THEN f
    ELSE LET a == Up(f, k - 1)
         IN  IF a \in DOMAIN folders THEN folders[a].parent_id ELSE NULL

\* C2: delete_folder(u, f) on a folder f of u returns True, removes f and its
\* descendants and nothing else, clears folder_id on every note that referenced
\* one of them, and deletes no note.
C2_DeleteFolderDetachesSubtree ==
    [][\A u \in UserIds, f \in FolderIds :
          (FolderRows(u, f) # {} /\ delete_folder(u, f)) =>
              LET subtree == Cascade({f})
              IN  /\ last'.ret = RetTrue
                  /\ DOMAIN folders' = DOMAIN folders \ subtree
                  /\ \A g \in DOMAIN folders' : folders'[g] = folders[g]
                  /\ DOMAIN notes' = DOMAIN notes
                  /\ \A n \in DOMAIN notes :
                        notes'[n] = IF notes[n].folder_id \in subtree
                                    THEN [notes[n] EXCEPT !.folder_id = NULL]
                                    ELSE notes[n]]_vars

\* C3: no folder is reachable from itself by following parent_id links.
C3_FoldersAcyclic ==
    \A f \in DOMAIN folders :
        \A k \in 1..Cardinality(DOMAIN folders) : Up(f, k) # f

\* C4: move_folder(u, f, f) returns False and changes no folder and no note.
C4_SelfMoveRejected ==
    [][\A u \in UserIds, f \in TreeIds :
          move_folder(u, f, f) =>
              /\ last'.ret = RetFalse
              /\ UNCHANGED <<folders, notes>>]_vars

\* alice, who owns every folder id a call is made with, had a move_folder
\* refused: the refusal is the self-parent test's.  A note sits in a folder and
\* a folder has a parent.
C4_Witness ==
    /\ last = Call("move_folder", 1, RetFalse)
    /\ DOMAIN folders = TreeIds
    /\ \A f \in TreeIds : folders[f].user_id = 1
    /\ \E f \in TreeIds : folders[f].parent_id # NULL
    /\ \E n \in DOMAIN notes : notes[n].folder_id \in TreeIds

\* C5: delete_folder ends by returning a boolean.
C5_DeleteFolderReturnsBool ==
    last.op = "delete_folder" => last.ret \in {RetTrue, RetFalse}

\* C6: a note's folder_id is NULL or the id of a folder that exists.
C6_NoteFolderExists ==
    \A n \in DOMAIN notes :
        notes[n].folder_id = NULL \/ notes[n].folder_id \in DOMAIN folders

\* C7: a folder's parent, if set, exists and has the folder's user_id.
C7_ParentSameOwner ==
    \A f \in DOMAIN folders :
        folders[f].parent_id # NULL =>
            /\ folders[f].parent_id \in DOMAIN folders
            /\ folders[folders[f].parent_id].user_id = folders[f].user_id

\* The rows of user v: v's folders, notes, todos and reminders, and the tag
\* associations of v's notes and todos.
Owned(v, fs, ns, ts, rs, nts, tts) ==
    [folders   |-> {<<f, fs[f]>> : f \in {g \in DOMAIN fs : fs[g].user_id = v}},
     notes     |-> {<<n, ns[n]>> : n \in {m \in DOMAIN ns : ns[m].user_id = v}},
     todos     |-> {<<t, ts[t]>> : t \in {s \in DOMAIN ts : ts[s].user_id = v}},
     reminders |-> {<<r, rs[r]>> : r \in {q \in DOMAIN rs : rs[q].user_id = v}},
     note_tags |-> {l \in nts : l[1] \in DOMAIN ns /\ ns[l[1]].user_id = v},
     todo_tags |-> {l \in tts : l[1] \in DOMAIN ts /\ ts[l[1]].user_id = v}]

\* C8: an operation of the store called with owner u leaves every folder,
\* note, todo, reminder and tag association of every other user v as it was.
C8_OtherOwnersRowsUntouched ==
    [][\A u \in UserIds : \A v \in UserIds \ {u} :
          last'.user_id = u =>
              Owned(v, folders', notes', todos', reminders', note_tags', todo_tags')
                  = Owned(v, folders, notes, todos, reminders, note_tags, todo_tags)]_vars

\* A step of a note, tag, stats or todo handler called with session id s; the
\* reply of a handler carries the handler's name.
HandlerStep(s) ==
    \/ reply'.op = "create_note" /\
          \E t \in RawTitles, c \in Contents : System_create_note(s, t, c)
    \/ reply'.op = "get_note" /\ \E t \in RawTitles : get_note(s, t)
    \/ reply'.op = "list_notes" /\ list_notes(s)
    \/ reply'.op = "search_notes" /\ search_notes(s, "1")
    \/ reply'.op = "edit_note" /\ \E t \in RawTitles : edit_note(s, t, "c2")
    \/ reply'.op = "update_note_title" /\
          \E t \in RawTitles : update_note_title(s, t, "t2")
    \/ reply'.op = "delete_note" /\ \E t \in RawTitles : System_delete_note(s, t)
    \/ reply'.op = "add_tags" /\
          \E t \in RawTitles, l \in RawTagLists : add_tags(s, t, l)
    \/ reply'.op = "get_stats" /\ get_stats(s)
    \/ reply'.op = "create_todo" /\
          \E l \in RawTagLists, t \in {"", "t1"} :
              System_create_todo(s, "todo", "urgent", l, t)
    \/ reply'.op = "list_todos" /\ list_todos(s)
    \/ reply'.op = "toggle_todo" /\ \E t \in StoreRowIds : System_toggle_todo(s, t)
    \/ reply'.op = "delete_todo" /\ \E t \in StoreRowIds : System_delete_todo(s, t)

\* C9: a note, tag, stats or todo handler called with a session id that is not
\* in active_sessions replies "Not logged in" and changes nothing stored; called
\* with a bound one, it acts as that session's user and on no other user's rows.
C9_HandlersNeedSession ==
    [][\A s \in SessionIds :
          HandlerStep(s) =>
              IF s \notin DOMAIN active_sessions
              THEN /\ ~reply'.success
                   /\ reply'.message = "Not logged in"
                   /\ UNCHANGED <<users, folders, notes, todos, reminders, user_todos, now, handlers, tagging, seq,
                                  sessions, last>>
              ELSE LET u == get_user_id(active_sessions[s])
                   IN  /\ last' = last \/ last'.user_id = u
                       /\ UNCHANGED <<users, sessions>>
                       /\ \A v \in UserIds \ {u} :
                             Owned(v, folders', notes', todos', reminders',
                                   note_tags', todo_tags')
                                 = Owned(v, folders, notes, todos, reminders,
                                         note_tags, todo_tags)]_vars

\* Every session has been logged out, a note and a todo are stored, and the
\* handler called last (delete_note) was refused.
C9_Witness ==
    /\ reply.op = "delete_note"
    /\ reply.message = "Not logged in"
    /\ issued # {}
    /\ active_sessions = <<>>
    /\ notes # <<>>
    /\ todos # <<>>

\* C10: logout_user(s) succeeds exactly when s is bound, and then removes the
\* binding of s and no other; otherwise it reports "Invalid session" and keeps
\* the bindings.  A token that was logged out is never bound again, so it
\* resolves to no user and every later logout_user(s) reports "Invalid session".
C10_LogoutRemovesOneBinding ==
    /\ [][\A s \in SessionIds :
            logout_user(s) =>
                IF s \in DOMAIN active_sessions
                THEN /\ reply'.success
                     /\ DOMAIN active_sessions' = DOMAIN active_sessions \ {s}
                     /\ \A t \in DOMAIN active_sessions' :
                           active_sessions'[t] = active_sessions[t]
                ELSE /\ ~reply'.success
                     /\ reply'.message = "Invalid session"
                     /\ active_sessions' = active_sessions]_vars
    /\ [][\A s \in SessionIds :
            s \notin DOMAIN active_sessions' =>
                /\ _get_username_from_session(s)' = ""
                /\ _validate_session(s)' = NULL]_vars
    /\ [][\A s \in issued :
            s \notin DOMAIN active_sessions => s \notin DOMAIN active_sessions']_vars

\* alice, the only user, logged in twice; one of her tokens was logged out and
\* the other is still bound, and the logout_user called last was refused.
C10_Witness ==
    /\ DOMAIN users = {"alice"}
    /\ issued = Tokens
    /\ Cardinality(DOMAIN active_sessions) = 1
    /\ reply.op = "logout_user"
    /\ reply.message = "Invalid session"

\* C11: a bound token s stays bound to the same username, and resolves to the
\* same user id, over every step that is not logout_user(s).
C11_SessionLivesUntilLogout ==
    [][\A s \in DOMAIN active_sessions :
          \/ logout_user(s)
          \/ /\ s \in DOMAIN active_sessions'
             /\ active_sessions'[s] = active_sessions[s]
             /\ _validate_session(s) # NULL
             /\ _validate_session(s)' = _validate_session(s)]_vars

\* alice holds a token, another token has been logged out, and the handler
\* called last, under her token, stored or changed a note.
C11_Witness ==
    /\ \A s \in DOMAIN active_sessions : active_sessions[s] = "alice"
    /\ active_sessions # <<>>
    /\ issued \ DOMAIN active_sessions # {}
    /\ notes # <<>>
    /\ reply.op \in {"create_note", "edit_note"}
    /\ reply.success

\* C12: login_user(n, p) binds a token exactly when n is registered and p is
\* the password n was registered with (both as the handlers strip them); the
\* token is one that is not bound, the other bindings stay, and a login that
\* fails binds nothing.  Every bound token maps to a registered username.
C12_LoginBindsOnlyVerified ==
    /\ [][\A n \in AccountNames, p \in AccountPasswords, s \in Tokens :
            login_user(n, p, s) =>
                IF /\ strip(n) \in DOMAIN users
                   /\ users[strip(n)].password_hash.bcrypt_of = strip(p)
                THEN /\ reply'.success
                     /\ s \notin DOMAIN active_sessions
                     /\ active_sessions' = active_sessions @@ (s :> strip(n))
                ELSE /\ ~reply'.success
                     /\ active_sessions' = active_sessions]_vars
    /\ [](\A s \in DOMAIN active_sessions : active_sessions[s] \in DOMAIN users)

\* alice registered with pw2 and holds a token; the login called last, with
\* the other password or for a username not registered, was refused.
C12_Witness ==
    /\ DOMAIN users = {"alice"}
    /\ users["alice"].password_hash = _hash_password("pw2")
    /\ \E s \in DOMAIN active_sessions : active_sessions[s] = "alice"
    /\ reply.op = "login_user"
    /\ reply.message = "Invalid username or password"

\* C13: register_user with a username that is registered fails and leaves the
\* users table as it is: the password of the first registration verifies, the
\* one supplied now (if another) does not, and the user's id and rows stay.  A
\* username that is not registered, whatever other spelling of it is, gets a
\* row and an id of its own.
C13_DuplicateRegistrationRefused ==
    [][\A n \in AccountNames, p \in AccountPasswords :
          register_user(n, p) =>
              IF n \in DOMAIN users
              THEN LET first == users[n].password_hash.bcrypt_of
                   IN  /\ ~reply'.success
                       /\ users' = users
                       /\ verify_user(n, first)'
                       /\ p # first => ~verify_user(n, p)'
                       /\ get_user_id(n)' = get_user_id(n)
                       /\ UNCHANGED <<folders, notes, todos, reminders, user_todos, now, handlers, tagging>>
              ELSE /\ reply'.success
                   /\ DOMAIN users' = DOMAIN users \cup {n}
                   /\ \A m \in DOMAIN users : users'[m] = users[m]
                   /\ users'[n].id \notin RegisteredIds
                   /\ verify_user(n, p)']_vars

\* "alice" and "Alice" are two users with different passwords, the first of
\* them owns a note, and the registration called last was refused.
C13_Witness ==
    /\ DOMAIN users = {"alice", "Alice"}
    /\ users["alice"].id # users["Alice"].id
    /\ users["alice"].password_hash # users["Alice"].password_hash
    /\ \E k \in DOMAIN notes : notes[k].user_id = 1
    /\ reply.op = "register_user"
    /\ reply.message = "User registration failed"

\* C14: add_note_tags (add_todo_tags) with a list L on an owned note (todo)
\* returns the names the entity had before together with those of L, each
\* once; every name of L has one tag row, rows that existed keep their ids, and
\* the associations are the ones before plus one per name of L.
C14_AttachIsIdempotent ==
    /\ [][\A u \in UserIds, t \in Titles, l \in TagNameLists :
            (NoteRows(u, t) # {} /\ add_note_tags(u, t, l)) =>
                LET n == CHOOSE m \in NoteRows(u, t) : TRUE
                    ret == last'.ret.tags
                IN  /\ last'.ret.kind = "tags"
                    /\ Range(ret) = Range(TagNames(tags, note_tags, n)) \cup Range(l)
                    /\ Len(ret) = Cardinality(Range(ret))
                    /\ DOMAIN tags' = DOMAIN tags \cup Range(l)
                    /\ \A x \in DOMAIN tags : tags'[x] = tags[x]
                    /\ note_tags' = note_tags \cup {<<n, tags'[x]>> : x \in Range(l)}
                    /\ todo_tags' = todo_tags]_vars
    /\ [][\A u \in UserIds, t \in StoreRowIds, l \in TagNameLists :
            (TodoRows(u, t) # {} /\ add_todo_tags(u, t, l)) =>
                LET ret == last'.ret.tags
                IN  /\ last'.ret.kind = "tags"
                    /\ Range(ret) = Range(TagNames(tags, todo_tags, t)) \cup Range(l)
                    /\ Len(ret) = Cardinality(Range(ret))
                    /\ DOMAIN tags' = DOMAIN tags \cup Range(l)
                    /\ \A x \in DOMAIN tags : tags'[x] = tags[x]
                    /\ todo_tags' = todo_tags \cup {<<t, tags'[x]>> : x \in Range(l)}
                    /\ note_tags' = note_tags]_vars

\* alice's note got both lists, one after the other: four INSERTs into tags,
\* two tag rows, two associations, and the call returned each name once.
C14_Witness ==
    /\ last = Call("add_note_tags", 1, RetTags(<<"b", "B">>))
    /\ seq.tags = 4
    /\ DOMAIN tags = {"b", "B"}
    /\ Cardinality(note_tags) = 2

\* C15: a tag name has one row and a tag id one name; every association
\* refers to a tag row; and over every step each tag row stays, with its id.
C15_TagRowsPermanent ==
    /\ [](\A x, y \in DOMAIN tags : tags[x] = tags[y] => x = y)
    /\ [](\A l \in note_tags \cup todo_tags : \E x \in DOMAIN tags : tags[x] = l[2])
    /\ [][\A x \in DOMAIN tags : x \in DOMAIN tags' /\ tags'[x] = tags[x]]_vars

\* "b" and "B" are two tags.  bob's note had both and alice's todo has "b";
\* the note was deleted last, and the row of "B", which no association uses
\* any more, is still there.
C15_Witness ==
    /\ last = Call("delete_note", 2, RetTrue)
    /\ DOMAIN tags = {"b", "B"}
    /\ tags["b"] # tags["B"]
    /\ seq.tags = 4
    /\ \E t \in DOMAIN todos : todos[t].user_id = 1 /\ <<t, tags["b"]>> \in todo_tags
    /\ \A l \in note_tags \cup todo_tags : l[2] # tags["B"]

\* C16: delete_note(u, t) on a note that exists deletes the note and its
\* note_tags associations, and leaves every tag row, every association of
\* another note and every association of a todo as it was.
C16_DeleteNoteDropsItsTags ==
    [][\A u \in UserIds, t \in Titles :
          (NoteRows(u, t) # {} /\ delete_note(u, t)) =>
              LET n == CHOOSE m \in NoteRows(u, t) : TRUE
              IN  /\ n \notin DOMAIN notes'
                  /\ note_tags' = {l \in note_tags : l[1] # n}
                  /\ tags' = tags
                  /\ todo_tags' = todo_tags]_vars

\* C17: creating a todo never fails because of its priority, a priority
\* outside {low, normal, high} is stored as 'normal', and so every stored todo
\* has a priority of the enumeration.
C17_PriorityNormalised ==
    /\ [](\A t \in DOMAIN todos : todos[t].priority \in PriorityEnum)
    /\ [](\A n \in DOMAIN user_todos : \A i \in 1..Len(user_todos[n]) :
              user_todos[n][i].priority \in PriorityEnum)
    /\ [][\A s \in DOMAIN active_sessions, p \in GivenPriorities :
              System_create_todo(s, "todo", p, <<>>, "") =>
                  /\ reply'.success
                  /\ todos'[seq'.todos].priority =
                         (IF p \in PriorityEnum THEN p ELSE "normal")]_vars
    /\ [][\A n \in Usernames, p \in GivenPriorities :
              InMemory_create_todo(n, "todo", p, "") =>
                  /\ reply'.success
                  /\ user_todos'[n][Len(user_todos'[n])].priority =
                         (IF p \in PriorityEnum THEN p ELSE "normal")]_vars

\* The in-memory todo list of a user, empty if the user has none yet.
TodoList(ut, n) == IF n \in DOMAIN ut THEN ut[n] ELSE <<>>

\* C18: toggle_todo(u, id) on a todo of u returns true and flips completed,
\* with every other field and every other todo as before, and a second call
\* would restore the todo; on an id that names no todo of u it returns false
\* and changes nothing.  This holds of the todos table and of the in-memory
\* list alike.
C18_ToggleFlips ==
    /\ [][\A u \in UserIds, t \in TodoIds :
              toggle_todo(u, t) =>
                  IF t \in DOMAIN todos /\ todos[t].user_id = u
                  THEN /\ last'.ret = RetTrue
                       /\ todos' = [todos EXCEPT ![t].completed = ~@]
                       /\ Toggled(todos', u, t) = todos
                  ELSE /\ last'.ret = RetFalse
                       /\ todos' = todos]_vars
    /\ [][\A n \in Usernames, i \in 1..MaxTodos :
              (/\ i <= Len(TodoList(user_todos, n))
               /\ InMemory_toggle_todo(n, user_todos[n][i].id, "None")) =>
                  /\ reply'.success
                  /\ user_todos'[n] = [user_todos[n] EXCEPT ![i].completed = ~@]]_vars
    /\ [][\A n \in Usernames, t \in TodoIds :
              (/\ \A i \in 1..Len(TodoList(user_todos, n)) : user_todos[n][i].id # t
               /\ InMemory_toggle_todo(n, t, "None")) =>
                  /\ ~reply'.success
                  /\ \A m \in Usernames :
                        TodoList(user_todos', m) = TodoList(user_todos, m)]_vars

\* C19: create_todo(u, ..., note_title) always creates the todo; the todo's
\* note_id is the id of u's note with exactly that title when there is one and
\* is empty otherwise, so that no todo is linked to a note of another owner.
C19_LinkOnlyToOwnNote ==
    /\ [][\A u \in UserIds, t \in GivenNoteTitles :
              create_todo(u, "todo", "normal", t) =>
                  LET id == seq.todos + 1
                      own == {n \in DOMAIN notes :
                                 notes[n].user_id = u /\ notes[n].title = t}
                  IN  /\ last'.ret = RetId(id)
                      /\ DOMAIN todos' = DOMAIN todos \cup {id}
                      /\ id \notin DOMAIN todos
                      /\ \A o \in DOMAIN todos : todos'[o] = todos[o]
                      /\ todos'[id].user_id = u
                      /\ IF own = {} THEN todos'[id].note_id = NULL
                         ELSE todos'[id].note_id \in own]_vars
    /\ [][\A s \in DOMAIN active_sessions, t \in RawNoteTitles :
              System_create_todo(s, "todo", "normal", <<>>, t) =>
                  LET id == seq.todos + 1
                      u == users[active_sessions[s]].id
                      own == {n \in DOMAIN notes :
                                 notes[n].user_id = u /\ notes[n].title = strip(t)}
                  IN  /\ reply'.success
                      /\ DOMAIN todos' = DOMAIN todos \cup {id}
                      /\ todos'[id].user_id = u
                      /\ IF own = {} THEN todos'[id].note_id = NULL
                         ELSE todos'[id].note_id \in own]_vars
    /\ [](\A t \in DOMAIN todos :
              todos[t].note_id # NULL =>
                  /\ todos[t].note_id \in DOMAIN notes
                  /\ notes[todos[t].note_id].user_id = todos[t].user_id)

\* Bob's todo, created with the title of a note only alice has, has no link,
\* and alice's todo created with that title is linked to her note.
C19_Witness ==
    /\ \E n \in DOMAIN notes : notes[n].user_id = 1 /\ notes[n].title = "t1"
    /\ \A n \in DOMAIN notes : notes[n].user_id = 1
    /\ \E t \in DOMAIN todos : todos[t].user_id = 2 /\ todos[t].note_id = NULL
    /\ \E t \in DOMAIN todos : todos[t].user_id = 1 /\ todos[t].note_id # NULL
    /\ reply.op = "create_todo" /\ reply.success

\* C20: create_folder(u, name, p) creates the folder exactly when p is absent
\* or is a folder of u; with a p that names no folder, or a folder of another
\* owner, it creates nothing and hands back an error result, not an id and
\* not an exception.
C20_InvalidParentRefused ==
    [][\A u \in UserIds, n \in FolderNames, p \in TreeIds \cup {NULL} :
          create_folder(u, n, p) =>
              IF p = NULL \/ (p \in DOMAIN folders /\ folders[p].user_id = u)
              THEN /\ last'.ret = RetId(seq.folders + 1)
                   /\ folders' = folders @@ (seq.folders + 1 :>
                          [user_id |-> u, name |-> n, parent_id |-> p])
              ELSE /\ folders' = folders
                   /\ last'.ret.kind \notin {"id", "IntegrityError"}]_vars

\* The store in which the id names nothing where it named a row of a user
\* other than u, and the store in which the title names no note of another user.
HideId(db, u, id) ==
    LET Hide(table) == Without(table, {i \in DOMAIN table : i = id /\ table[i].user_id # u})
    IN  [folders |-> Hide(db.folders), notes |-> db.notes,
         todos |-> Hide(db.todos), reminders |-> Hide(db.reminders)]
HideTitle(db, u, title) ==
    [db EXCEPT !.notes = Without(@, {n \in DOMAIN @ : @[n].title = title /\ @[n].user_id # u})]

\* C21: a call of user u that refers to an id or title X returns the same in a
\* state where X names a row of another user as in the state that differs from
\* it only in X naming nothing.  The first conjuncts say that the Ret_
\* operators are what the calls return; the last compares the two states.
C21_ForeignLooksMissing ==
    /\ [][\A u \in UserIds, x \in StoreFolderIds :
            /\ \A p \in StoreFolderIds \cup {NULL} :
                  /\ create_folder(u, "A", p) => last'.ret = Ret_create_folder(Store, u, p)
                  /\ move_folder(u, x, p) => last'.ret = Ret_move_folder(Store, u, x, p)
            /\ rename_folder(u, x, "A") => last'.ret = Ret_rename_folder(Store, u, x)
            /\ delete_folder(u, x) => last'.ret = Ret_delete_folder(Store, u, x)
            /\ set_note_folder(u, "t1", x) =>
                  last'.ret = Ret_set_note_folder(Store, u, "t1", x)]_vars
    /\ [][\A u \in UserIds, x \in StoreRowIds :
            /\ toggle_todo(u, x) => last'.ret = Ret_toggle_todo(Store, u, x)
            /\ delete_todo(u, x) => last'.ret = Ret_delete_todo(Store, u, x)
            /\ delete_reminder(u, x) => last'.ret = Ret_delete_reminder(Store, u, x)
            /\ delete_note(u, "t1") => last'.ret = Ret_delete_note(Store, u, "t1")]_vars
    /\ [](\A u \in UserIds :
            (get_note_by_title(u, "t1") = <<>>)
                <=> (Ret_get_note_by_title(Store, u, "t1") = {}))
    /\ [](\A u \in UserIds, x \in StoreFolderIds \cup StoreRowIds :
            LET hidden == HideId(Store, u, x)
            IN  /\ Ret_create_folder(Store, u, x) = Ret_create_folder(hidden, u, x)
                /\ \A y \in StoreFolderIds \cup {NULL} :
                      /\ Ret_move_folder(Store, u, y, x) = Ret_move_folder(hidden, u, y, x)
                      /\ Ret_move_folder(Store, u, x, y) = Ret_move_folder(hidden, u, x, y)
                /\ Ret_rename_folder(Store, u, x) = Ret_rename_folder(hidden, u, x)
                /\ Ret_delete_folder(Store, u, x) = Ret_delete_folder(hidden, u, x)
                /\ Ret_set_note_folder(Store, u, "t1", x)
                      = Ret_set_note_folder(hidden, u, "t1", x)
                /\ Ret_toggle_todo(Store, u, x) = Ret_toggle_todo(hidden, u, x)
                /\ Ret_delete_todo(Store, u, x) = Ret_delete_todo(hidden, u, x)
                /\ Ret_delete_reminder(Store, u, x) = Ret_delete_reminder(hidden, u, x))
    /\ [](\A u \in UserIds :
            LET hidden == HideTitle(Store, u, "t1")
            IN  /\ Ret_get_note_by_title(Store, u, "t1")
                      = Ret_get_note_by_title(hidden, u, "t1")
                /\ Ret_delete_note(Store, u, "t1") = Ret_delete_note(hidden, u, "t1"))

\* The ids met on the way down from the nodes `ids` of a tree, parents first.
RECURSIVE Walk(_, _, _)
Walk(tree, ids, depth) ==
    IF ids = <<>> \/ depth > RecursionLimit THEN <<>>
    ELSE <<Head(ids)>> \o Walk(tree, tree.children[Head(ids)], depth + 1)
                       \o Walk(tree, Tail(ids), depth)

\* A list of folder ids is in the order of the folders' names.
NameOrdered(ids) ==
    \A i, j \in DOMAIN ids :
        i < j => NameRank(folders[ids[i]].name) <= NameRank(folders[ids[j]].name)

\* C22: list_folders_tree(u) is a forest that holds each folder of u exactly
\* once: under its parent when the parent is a folder of u, as a root when it
\* has no parent or one that is missing or another user's; roots and siblings
\* are in the order of their names.
C22_TreeHoldsEveryFolderOnce ==
    \A u \in UserIds : \A rows \in FolderRowOrders(u) :
        LET tree == list_folders_tree(u, rows)
            met == Walk(tree, tree.roots, 1)
            own == {f \in DOMAIN folders : folders[f].user_id = u}
        IN  /\ \A f \in own : Cardinality({i \in DOMAIN met : met[i] = f}) = 1
            /\ \A f \in own :
                  IF folders[f].parent_id \in own
                  THEN f \in Range(tree.children[folders[f].parent_id])
                  ELSE f \in Range(tree.roots)
            /\ NameOrdered(tree.roots)
            /\ \A f \in own : NameOrdered(tree.children[f])

\* C23: get_user_stats(u) counts the notes, todos, folders and reminders of u;
\* total_tags is the number of tags attached to a note of u, tags of u's todos
\* and of other users' notes not counted; recent_note is a note of u that no
\* note of u is modified later than, or none when u has no note; and asking
\* for the stats changes no stored state.
C23_StatsCountOwnRows ==
    /\ [](\A u \in UserIds :
            LET stats == get_user_stats(u)
                Own(table) == {i \in DOMAIN table : table[i].user_id = u}
            IN  /\ stats.total_notes = Cardinality(Own(notes))
                /\ stats.total_todos = Cardinality(Own(todos))
                /\ stats.total_folders = Cardinality(Own(folders))
                /\ stats.total_reminders = Cardinality(Own(reminders))
                /\ stats.total_tags = Cardinality({name \in DOMAIN tags :
                       \E n \in Own(notes) : <<n, tags[name]>> \in note_tags})
                /\ (stats.recent_note = {}) <=> (Own(notes) = {})
                /\ \A r \in stats.recent_note :
                      /\ \E n \in Own(notes) :
                            notes[n].title = r.title /\ notes[n].modified_at = r.modified_at
                      /\ \A n \in Own(notes) : notes[n].modified_at <= r.modified_at)
    /\ [][\A s \in DOMAIN active_sessions :
            get_stats(s) =>
                /\ reply'.success
                /\ reply'.data = <<get_user_stats(users[active_sessions[s]].id)>>
                /\ UNCHANGED <<users, folders, notes, todos, reminders, tagging, seq,
                               sessions>>]_vars

\* Alice has asked for her stats: her one note, modified a second after bob's,
\* carries no tag, her todo carries a tag, bob's note carries another, and the
\* one folder is bob's.
C23_Witness ==
    /\ reply.op = "get_stats" /\ reply.success
    /\ reply.data = <<get_user_stats(1)>>
    /\ get_user_stats(1).total_notes = 1
    /\ get_user_stats(1).total_tags = 0
    /\ get_user_stats(2).total_tags = 1
    /\ get_user_stats(1).total_todos = 1
    /\ get_user_stats(1).total_folders = 0
    /\ get_user_stats(2).total_folders = 1
    /\ \E t \in DOMAIN todos : \E name \in DOMAIN tags :
          /\ <<t, tags[name]>> \in todo_tags
          /\ \A l \in note_tags : l[2] # tags[name]
    /\ get_user_stats(1).recent_note = {[title |-> "t1", modified_at |-> 1]}
    /\ get_user_stats(2).recent_note = {[title |-> "t1", modified_at |-> 0]}

\* C24: a delete_folder(u, f) that returns False, f being no folder of u,
\* leaves every table as it was: no note loses its folder_id and no folder goes.
C24_FailedDeleteChangesNothing ==
    [][\A u \in UserIds, f \in FolderIds :
          (delete_folder(u, f) /\ last'.ret = RetFalse) =>
              /\ ~OwnRow(folders, u, f)
              /\ UNCHANGED <<users, folders, notes, todos, reminders, tagging, seq>>]_vars

\* C25: delete_note(u, t) on a note u has returns True, and afterwards
\* get_note_by_title(u, t) finds nothing; this is so when todos are linked to
\* the note as well, and those todos stay in the table.
C25_DeleteNoteWithLinkedTodos ==
    [][\A u \in UserIds, t \in Titles :
          (NoteRows(u, t) # {} /\ delete_note(u, t)) =>
              /\ last'.ret = RetTrue
              /\ get_note_by_title(u, t)' = <<>>
              /\ DOMAIN todos' = DOMAIN todos
              /\ \A d \in DOMAIN todos :
                    /\ todos'[d].user_id = todos[d].user_id
                    /\ todos'[d].title = todos[d].title
                    /\ todos'[d].completed = todos[d].completed]_vars

\* C26: while one caller runs delete_folder(u, f) step by step and another of
\* the same owner creates folders and files notes under folders that exist at
\* the time of each call, no interleaving ends with a note in a folder that is
\* deleted: once the delete_folder has returned, every folder_id of a note is
\* NULL or the id of a folder.
C26_NoNoteLeftInDeletedFolder ==
    (\A h \in HandlerIds : handlers[h].pc \in {"idle", "done"}) =>
        \A n \in DOMAIN notes :
            notes[n].folder_id = NULL \/ notes[n].folder_id \in DOMAIN folders


\* C27: when two callers toggle the same todo of its owner at once, each doing
\* its read of completed and then its write, both return True and the todo,
\* created not completed, is not completed once both have returned: two flips,
\* never one.
C27_TwoTogglesFlipTwice ==
    \A h1, h2 \in HandlerIds :
        (/\ h1 # h2
         /\ handlers[h1].pc = "done" /\ handlers[h2].pc = "done"
         /\ handlers[h1].op = "toggle_todo" /\ handlers[h2].op = "toggle_todo"
         /\ handlers[h1].user_id = handlers[h2].user_id
         /\ handlers[h1].id = handlers[h2].id)
        => /\ handlers[h1].ret = RetTrue /\ handlers[h2].ret = RetTrue
           /\ todos[handlers[h1].id].completed = FALSE


\* C28: when two callers log the same bound token out at once, each doing its
\* membership test and then its del, one of them answers "Logout successful",
\* the other answers "Invalid session" and raises nothing, and the token is
\* bound to no user once both have returned.
C28_OneLogoutWins ==
    \A h1, h2 \in HandlerIds :
        (/\ h1 # h2
         /\ handlers[h1].pc = "done" /\ handlers[h2].pc = "done"
         /\ handlers[h1].op = "logout_user" /\ handlers[h2].op = "logout_user"
         /\ handlers[h1].id = handlers[h2].id
         /\ handlers[h1].ret = RetTrue)
        => /\ handlers[h1].text = "Logout successful"
           /\ handlers[h2].ret = RetFalse
           /\ handlers[h2].text = "Invalid session"
           /\ handlers[h1].id \notin DOMAIN active_sessions


\* C29: when two callers at once create a note of the same registered owner
\* and title, or register the same free username, then once both have returned
\* one of them has succeeded (a note id, True), the other has the failure value
\* of the method (None, False) and no exception, and there is one row for the
\* key, with the content or the password of the caller that succeeded.
C29_OneCreateWins ==
    \A h1, h2 \in HandlerIds :
        (/\ h1 # h2
         /\ handlers[h1].pc = "done" /\ handlers[h2].pc = "done"
         /\ handlers[h1].op = handlers[h2].op
         /\ handlers[h1].name = handlers[h2].name
         /\ handlers[h1].user_id = handlers[h2].user_id)
        => /\ handlers[h1].op = "create_note" /\ handlers[h1].user_id \in RegisteredIds
              => LET rows == NoteRows(handlers[h1].user_id, handlers[h1].name)
                     won == {h \in {h1, h2} : handlers[h].ret.kind = "id"}
                 IN  /\ Cardinality(won) = 1
                     /\ \A h \in {h1, h2} \ won : handlers[h].ret = RetNone
                     /\ Cardinality(rows) = 1
                     /\ \A h \in won :
                           /\ rows = {handlers[h].ret.id}
                           /\ notes[handlers[h].ret.id].content = handlers[h].text
           /\ handlers[h1].op = "create_user" /\ handlers[h1].name # "alice"
              => LET won == {h \in {h1, h2} : handlers[h].ret = RetTrue}
                 IN  /\ Cardinality(won) = 1
                     /\ \A h \in {h1, h2} \ won : handlers[h].ret = RetFalse
                     /\ handlers[h1].name \in DOMAIN users
                     /\ \A h \in won : verify_user(handlers[h].name, handlers[h].text)

\* Two callers have created the same note of alice with different contents:
\* the second caller's INSERT came first and its content is stored.
C29_Witness ==
    /\ handlers[1].pc = "done" /\ handlers[2].pc = "done"
    /\ handlers[1].op = "create_note" /\ handlers[2].op = "create_note"
    /\ handlers[1].user_id = 1 /\ handlers[2].user_id = 1
    /\ handlers[1].name = handlers[2].name
    /\ handlers[1].text = "c1" /\ handlers[2].text = "c2"
    /\ handlers[2].ret = RetId(1) /\ handlers[1].ret = RetNone
    /\ notes[1].content = "c2"

\* Two callers have registered bob with different passwords: the second
\* caller's INSERT came first and its password logs bob in.
C29_WitnessUsers ==
    /\ handlers[1].pc = "done" /\ handlers[2].pc = "done"
    /\ handlers[1].op = "create_user" /\ handlers[2].op = "create_user"
    /\ handlers[1].name = "bob" /\ handlers[2].name = "bob"
    /\ handlers[1].text = "pw1" /\ handlers[2].text = "pw2"
    /\ handlers[1].ret = RetFalse /\ handlers[2].ret = RetTrue
    /\ verify_user("bob", "pw2") /\ ~verify_user("bob", "pw1")


\* C30: no two todos of a user share an id, after any calls of create_todo and
\* delete_todo: in the in-memory list of each user the ids are pairwise
\* different, and in the todos table create_todo returns an id that no row has
\* or has had.
C30_TodoIdsUnique ==
    /\ [](\A n \in DOMAIN user_todos :
             \A i, j \in 1..Len(user_todos[n]) :
                i # j => user_todos[n][i].id # user_todos[n][j].id)
    /\ [][\A u \in UserIds :
              create_todo(u, "todo", "normal", "") =>
                  /\ last'.ret.kind = "id"
                  /\ last'.ret.id \notin DOMAIN todos
                  /\ last'.ret.id > seq.todos
                  /\ DOMAIN todos' = DOMAIN todos \cup {last'.ret.id}
                  /\ seq'.todos >= last'.ret.id]_vars

====
